---- MODULE Spec2Model ----
(***************************************************************************)
(* Model of the image-transformation engine of ProcesadorImagenes          *)
(* (src/libreria_imagenes.py).  The engine is a set of static methods on   *)
(* numpy arrays: an array is a view (window) onto a storage buffer, so the *)
(* model keeps a memory of buffers and hands arrays around as views.  One  *)
(* behaviour is: the caller holds an image, makes one engine call, and may *)
(* afterwards write into the arrays it holds.                              *)
(*                                                                         *)
(* The application (src/main.py) is modelled beside it: the three images   *)
(* the window holds, its controls, and one action per handler, each making *)
(* its engine calls on fresh arrays.                                       *)
(***************************************************************************)
EXTENDS Integers, Sequences, FiniteSets, TLC

VARIABLES
    mem,      \* storage: buffer name -> array contents [h, w, px]
    fase,     \* "listo" (no call made yet) | "retornado" | "error"
    llamada,  \* the call that was made: operation name and arguments
    ret,      \* the arrays the call returned, as a sequence of views
    hist,     \* the value calcular_histograma returned (<<>> otherwise)
    ent0,     \* contents of the input array(s) on entry to the call
    ret0,     \* contents of the returned arrays at the moment of return
    escrito,  \* the caller's writes after the call: "" | "entrada" | "salida"
    imagen_original,   \* AplicacionProcesamiento: the image as opened, or None
    imagen_procesada,  \* the image on display, or None
    imagen_segunda,    \* the second image of the blends, or None
    controles,         \* the values of the nine control variables (var_...)
    mensaje,           \* the messagebox the last handler showed, "" if none
    accion,            \* the last handler that ran
    fallo,             \* what raised in it: "" | "motor" | "interfaz"
    anterior,          \* the three images and the controls before it ran
    pasos              \* handlers run so far

motor == <<mem, fase, llamada, ret, hist, ent0, ret0, escrito>>

interfaz ==
    <<imagen_original, imagen_procesada, imagen_segunda, controles, mensaje,
      accion, fallo, anterior, pasos>>

vars ==
    <<mem, fase, llamada, ret, hist, ent0, ret0, escrito,
      imagen_original, imagen_procesada, imagen_segunda, controles, mensaje,
      accion, fallo, anterior, pasos>>

----------------------------------------------------------------------------
(* Bounds of the model *)

MaxAlto == 2
MaxAncho == 2

(* uint8: the element type of every raster *)
MaxU8 == 255

Niveles == 0..MaxU8

----------------------------------------------------------------------------
(* IEEE-754 binary32 (np.float32), non-negative values only: the number    *)
(* m * 2^e with m = 0, or 2^23 <= m < 2^24 (24 significant bits); NaN and  *)
(* +Inf apart.  Results are rounded to nearest, ties to even.  Every       *)
(* intermediate stays below 2^31.                                          *)

F32Bits == 24

Pow2(n) == 2 ^ n

F32Num(m, e) == [k |-> "num", m |-> m, e |-> e]

F32Cero == F32Num(0, 0)

F32NaN == [k |-> "nan", m |-> 0, e |-> 0]

F32Inf == [k |-> "inf", m |-> 0, e |-> 0]

RECURSIVE F32Normalizar(_, _)
F32Normalizar(m, e) ==
    IF m = 0 THEN F32Cero
    ELSE IF m < Pow2(F32Bits - 1) THEN F32Normalizar(2 * m, e - 1)
    ELSE F32Num(m, e)

(* an integer 0 <= n < 2^24 is exact *)
F32DeEntero(n) == F32Normalizar(n, 0)

(* q has 24 bits; cmp tells where the discarded part lies against half a
   unit in the last place: -1 below, 0 exactly half, 1 above *)
F32Redondear(q, e, cmp) ==
    LET arriba == cmp = 1 \/ (cmp = 0 /\ q % 2 = 1)
        r == IF arriba THEN q + 1 ELSE q
    IN  IF r = Pow2(F32Bits) THEN F32Num(Pow2(F32Bits - 1), e + 1) ELSE F32Num(r, e)

Comparar(a, b) == IF a < b THEN -1 ELSE IF a = b THEN 0 ELSE 1

(* <<q, r>> with num * 2^bits = q * den + r, 0 <= r < den, by long division *)
RECURSIVE DivisionLarga(_, _, _, _)
DivisionLarga(q, r, den, bits) ==
    IF bits = 0 THEN <<q, r>>
    ELSE IF 2 * r >= den THEN DivisionLarga(2 * q + 1, 2 * r - den, den, bits - 1)
    ELSE DivisionLarga(2 * q, 2 * r, den, bits - 1)

F32Div(a, b) ==
    IF a.k = "nan" \/ b.k = "nan" THEN F32NaN
    ELSE IF a.k = "inf" THEN (IF b.k = "inf" THEN F32NaN ELSE F32Inf)
    ELSE IF b.k = "inf" THEN F32Cero
    ELSE IF b.m = 0 THEN (IF a.m = 0 THEN F32NaN ELSE F32Inf)
    ELSE IF a.m = 0 THEN F32Cero
    ELSE LET bits == IF a.m >= b.m THEN F32Bits - 1 ELSE F32Bits
             d == DivisionLarga(a.m \div b.m, a.m % b.m, b.m, bits)
         IN  F32Redondear(d[1], a.e - b.e - bits, Comparar(2 * d[2], b.m))

F32Mul(a, b) ==
    IF a.k = "nan" \/ b.k = "nan" THEN F32NaN
    ELSE IF a.k = "inf" \/ b.k = "inf"
         THEN (IF (a.k = "num" /\ a.m = 0) \/ (b.k = "num" /\ b.m = 0) THEN F32NaN ELSE F32Inf)
    ELSE IF a.m = 0 \/ b.m = 0 THEN F32Cero
    ELSE LET mitad == Pow2(12)
             ah == a.m \div mitad
             al == a.m % mitad
             bh == b.m \div mitad
             bl == b.m % mitad
             medio == ah * bl + al * bh
             bajo == (medio % mitad) * mitad + al * bl
             alto == ah * bh + medio \div mitad + bajo \div Pow2(24)
             lo == bajo % Pow2(24)
             \* the product is alto * 2^24 + lo, in [2^46, 2^48)
         IN  IF alto >= Pow2(23)
             THEN F32Redondear(alto, a.e + b.e + 24, Comparar(lo, Pow2(23)))
             ELSE F32Redondear(2 * alto + lo \div Pow2(23), a.e + b.e + 23,
                               Comparar(lo % Pow2(23), Pow2(22)))

(* m / 2^d, with the lowest bit kept set when a set bit was shifted out *)
DesplazarPegajoso(m, d) ==
    IF d >= 28 THEN (IF m = 0 THEN 0 ELSE 1)
    ELSE LET k == m \div Pow2(d)
         IN  IF m % Pow2(d) = 0 \/ k % 2 = 1 THEN k ELSE k + 1

(* s * 2^e with 0 < s < 2^28 carrying three guard bits, rounded to 24 bits *)
RECURSIVE F32DeGuardados(_, _)
F32DeGuardados(s, e) ==
    IF s = 0 THEN F32Cero
    ELSE IF s >= Pow2(27) THEN F32DeGuardados(DesplazarPegajoso(s, 1), e + 1)
    ELSE IF s < Pow2(26) THEN F32DeGuardados(2 * s, e - 1)
    ELSE F32Redondear(s \div 8, e + 3, Comparar(s % 8, 4))

F32Mayor(a, b) ==
    \* the larger of two finite values first
    IF a.m = 0 \/ (b.m # 0 /\ (a.e < b.e \/ (a.e = b.e /\ a.m < b.m))) THEN <<b, a>> ELSE <<a, b>>

F32Suma(a, b) ==
    IF a.k = "nan" \/ b.k = "nan" THEN F32NaN
    ELSE IF a.k = "inf" \/ b.k = "inf" THEN F32Inf
    ELSE LET g == F32Mayor(a, b)[1]
             p == F32Mayor(a, b)[2]
         IN  IF p.m = 0 THEN g
             ELSE F32DeGuardados(8 * g.m + DesplazarPegajoso(8 * p.m, g.e - p.e), g.e - 3)

(* a - b for finite a >= b >= 0 *)
F32Resta(a, b) ==
    IF b.m = 0 THEN a
    ELSE F32DeGuardados(8 * a.m - DesplazarPegajoso(8 * b.m, a.e - b.e), a.e - 3)

(* cvRound: the nearest integer, ties to even, of a finite value; capped at
   2^24 *)
F32Redondeo(a) ==
    IF a.m = 0 \/ -a.e > 30 THEN 0
    ELSE IF a.e >= 0 THEN Pow2(F32Bits)
    ELSE LET q == a.m \div Pow2(-a.e)
             cmp == Comparar(2 * (a.m % Pow2(-a.e)), Pow2(-a.e))
         IN  IF cmp = 1 \/ (cmp = 0 /\ q % 2 = 1) THEN q + 1 ELSE q

F32Menor(a, b) ==
    \* a < b for finite a, b
    IF a.m = 0 THEN b.m > 0
    ELSE IF b.m = 0 THEN FALSE
    ELSE a.e < b.e \/ (a.e = b.e /\ a.m < b.m)

(* the integer part of a finite value below 2^8 *)
F32Truncar(a) ==
    IF a.m = 0 \/ -a.e > 30 THEN 0 ELSE a.m \div Pow2(-a.e)

(* astype(np.uint8) is a C conversion: it truncates a value in [0, 256); for
   NaN, Inf and values of 256 or more the conversion is undefined *)
F32EnRangoU8(a) == a.k = "num" /\ (a.m = 0 \/ a.e < 8 - (F32Bits - 1))

----------------------------------------------------------------------------
(* Arrays.  px[y][x] is the sequence of the channels of pixel (row y,      *)
(* column x), 1-based; an RGB raster has three channels, a gray one has one*)

(* a sequence given as a function on 1..n, in the form of a tuple *)
Tupla(s) == SubSeq(s, 1, Len(s))

Arreglo(h, w, f(_, _)) ==
    [h |-> h, w |-> w,
     px |-> Tupla([y \in 1..h |-> Tupla([x \in 1..w |-> Tupla(f(y, x))])])]

Canales(a) == IF a.h = 0 \/ a.w = 0 THEN 3 ELSE Len(a.px[1][1])

MapElem(a, g(_)) ==
    Arreglo(a.h, a.w, LAMBDA y, x : [c \in 1..Len(a.px[y][x]) |-> g(a.px[y][x][c])])

Elementos(a) == {a.px[y][x][c] : y \in 1..a.h, x \in 1..a.w, c \in 1..Canales(a)}

SinBuffer == [h |-> 0, w |-> 0, px |-> <<>>]

MismaForma(a, b) == a.h = b.h /\ a.w = b.w

(* an array without elements: cv2's functions refuse it (cv2.error) *)
Vacio(a) == a.h = 0 \/ a.w = 0

(* A view: the window [y0, y0+h) x [x0, x0+w) of buffer buf (0-based) *)
Vista(b, y0, x0, h, w) == [buf |-> b, y0 |-> y0, x0 |-> x0, h |-> h, w |-> w]

VistaCompleta(m, b) == Vista(b, 0, 0, m[b].h, m[b].w)

Leer(m, v) == Arreglo(v.h, v.w, LAMBDA y, x : m[v.buf].px[v.y0 + y][v.x0 + x])

Bufs == {"img1", "img2", "tmp1", "tmp2", "out1", "out2", "out3", "out4"}

----------------------------------------------------------------------------
(* The rasters the caller may hold *)

Rampa == Arreglo(1, MaxU8 + 1, LAMBDA y, x : <<x - 1, MaxU8 - (x - 1), ((x - 1) * 7 + 3) % (MaxU8 + 1)>>)

Codificado(h, w) ==
    Arreglo(h, w, LAMBDA y, x : <<(40 * y + 10 * x) % (MaxU8 + 1),
                                  (127 + 40 * y + 10 * x) % (MaxU8 + 1),
                                  (MaxU8 * 3 - 40 * y - 10 * x) % (MaxU8 + 1)>>)

Colores == {<<0, 0, 0>>, <<255, 255, 255>>, <<200, 0, 0>>, <<127, 127, 127>>}

Uniforme(h, w, col) == Arreglo(h, w, LAMBDA y, x : col)

(* two pixels whose luma 0.299 R + 0.587 G + 0.114 B lies within 0.001 of a
   half: 127.501 and 34.499 *)
CasiMedios == Arreglo(1, 2, LAMBDA y, x : IF x = 1 THEN <<2, 189, 140>> ELSE <<115, 0, 1>>)

(* a fully black pixel beside one that is not *)
ConNegro == Arreglo(1, 2, LAMBDA y, x : IF x = 1 THEN <<0, 0, 0>> ELSE <<100, 0, 50>>)

(* one pixel with ln(1 + 2) / ln(1 + 26) = 1/3 and ln(1 + 8) / ln(1 + 26) = 2/3 *)
Tercios == Uniforme(1, 1, <<2, 8, 26>>)

Rasters ==
    {Rampa, CasiMedios, ConNegro, Tercios}
    \cup {Codificado(h, w) : h \in 1..MaxAlto, w \in 1..MaxAncho}
    \cup {Uniforme(h, w, col) : h \in 1..MaxAlto, w \in 1..MaxAncho, col \in Colores}

----------------------------------------------------------------------------
(* Calls.  An engine method takes the memory and the views of its arguments *)
(* and yields the memory after it ran, the views it returns and the error   *)
(* it raised ("" when it returned).                                         *)

Salidas == <<"out1", "out2", "out3", "out4">>

(* the method returns the arrays `nuevos`, each allocated in a buffer of its own *)
Resultado(m, nuevos) ==
    [mem |-> [b \in Bufs |->
                IF \E i \in 1..Len(nuevos) : Salidas[i] = b
                THEN nuevos[CHOOSE i \in 1..Len(nuevos) : Salidas[i] = b]
                ELSE m[b]],
     ret |-> [i \in 1..Len(nuevos) |-> Vista(Salidas[i], 0, 0, nuevos[i].h, nuevos[i].w)],
     hist |-> <<>>,
     error |-> ""]

(* the method raises: nothing is returned *)
Falla(m, e) == [mem |-> m, ret |-> <<>>, hist |-> <<>>, error |-> e]

SinLlamada ==
    [op |-> "ninguna", canal |-> "", n |-> 0, q |-> 0, rect |-> <<0, 0, 0, 0>>]

Llamada(op, canal, n, q, rect) ==
    [op |-> op, canal |-> canal, n |-> n, q |-> q, rect |-> rect]

Imagen1 == VistaCompleta(mem, "img1")

(* a memory that holds the one array img *)
MemoriaCon(img) == [b \in Bufs |-> IF b = "img1" THEN img ELSE SinBuffer]

(* no image: it is no array *)
None == [h |-> -1, w |-> -1, px |-> <<>>]

(* the values __init__ gives the control variables; gamma, c and alpha in
   tenths *)
ControlesPorDefecto ==
    [var_brillo_global |-> 0, var_brillo_r |-> 0, var_brillo_g |-> 0, var_brillo_b |-> 0,
     var_gamma |-> 10, var_c_log |-> 10, var_umbral |-> 127, var_alpha_fusion |-> 5,
     var_angulo_rotacion |-> 0]

Estado == [original |-> imagen_original, procesada |-> imagen_procesada,
           segunda |-> imagen_segunda, controles |-> controles]

(* AplicacionProcesamiento.__init__ *)
InterfazInicial ==
    /\ imagen_original = None
    /\ imagen_procesada = None
    /\ imagen_segunda = None
    /\ controles = ControlesPorDefecto
    /\ mensaje = ""
    /\ accion = ""
    /\ fallo = ""
    /\ anterior = [original |-> None, procesada |-> None, segunda |-> None,
                   controles |-> ControlesPorDefecto]
    /\ pasos = 0

Init ==
    /\ \E img \in Rasters :
         mem = [b \in Bufs |-> IF b = "img1" THEN img ELSE SinBuffer]
    /\ fase = "listo"
    /\ llamada = SinLlamada
    /\ ret = <<>>
    /\ hist = <<>>
    /\ ent0 = <<>>
    /\ ret0 = <<>>
    /\ escrito = ""
    /\ InterfazInicial

(* the caller makes call ll on the rasters `entradas`; its outcome is r *)
LlamarCon(ll, entradas, r) ==
    /\ fase = "listo"
    /\ llamada' = ll
    /\ ent0' = entradas
    /\ mem' = r.mem
    /\ ret' = r.ret
    /\ hist' = r.hist
    /\ ret0' = [i \in 1..Len(r.ret) |-> Leer(r.mem, r.ret[i])]
    /\ fase' = IF r.error = "" THEN "retornado" ELSE "error"
    /\ escrito' = ""
    /\ UNCHANGED interfaz

Llamar(ll, r) == LlamarCon(ll, <<Leer(mem, Imagen1)>>, r)

----------------------------------------------------------------------------
(* Brightness *)

Deltas == {-300, -256, -255, -100, -50, -1, 0, 1, 50, 100, 255, 256, 300}

clip(v, lo, hi) == IF v < lo THEN lo ELSE IF v > hi THEN hi ELSE v

(* the sum made on uint8, without the conversion to float32: it wraps *)
ajustar_brillo_global_u8(m, imagen, factor) ==
    Resultado(m, <<MapElem(Leer(m, imagen), LAMBDA v : (v + factor) % (MaxU8 + 1))>>)

(* astype(float32) + factor, clip, astype(uint8): every value involved is an
   integer of magnitude below 2^24, which float32 holds exactly. *)
ajustar_brillo_global(m, imagen, factor) ==
    LET img_float == Leer(m, imagen)
        img_ajustada == MapElem(img_float, LAMBDA v : clip(v + factor, 0, MaxU8))
    IN  Resultado(m, <<img_ajustada>>)

AjustarBrilloGlobal ==
    /\ fase = "listo"
    /\ \E factor \in Deltas :
        Llamar(Llamada("ajustar_brillo_global", "", factor, 0, <<0, 0, 0, 0>>),
               ajustar_brillo_global(mem, Imagen1, factor))

CanalesRGB == <<"R", "G", "B">>

Etiquetas == {"R", "G", "B", "X", "r", ""}

(* the channel index taken in BGR order *)
ajustar_brillo_canal_bgr(m, imagen, canal, factor) ==
    LET img_copia == Leer(m, imagen)
    IN  IF canal \notin {"R", "G", "B"} THEN Falla(m, "ValueError")
        ELSE LET indice_canal == 4 - (CHOOSE i \in 1..3 : CanalesRGB[i] = canal)
             IN  Resultado(m, <<Arreglo(img_copia.h, img_copia.w, LAMBDA y, x :
                                   [c \in 1..3 |->
                                      IF c = indice_canal
                                      THEN clip(img_copia.px[y][x][c] + factor, 0, MaxU8)
                                      ELSE img_copia.px[y][x][c]])>>)

(* the final else taken as blue instead of raising *)
ajustar_brillo_canal_sin_else(m, imagen, canal, factor) ==
    LET img_copia == Leer(m, imagen)
        indice_canal == IF canal = "R" THEN 1 ELSE IF canal = "G" THEN 2 ELSE 3
    IN  Resultado(m, <<Arreglo(img_copia.h, img_copia.w, LAMBDA y, x :
                          [c \in 1..3 |->
                             IF c = indice_canal
                             THEN clip(img_copia.px[y][x][c] + factor, 0, MaxU8)
                             ELSE img_copia.px[y][x][c]])>>)

ajustar_brillo_canal(m, imagen, canal, factor) ==
    LET img_copia == Leer(m, imagen)
    IN  IF canal \notin {"R", "G", "B"} THEN Falla(m, "ValueError")
        ELSE LET indice_canal == CHOOSE i \in 1..3 : CanalesRGB[i] = canal
                 sumada == Arreglo(img_copia.h, img_copia.w, LAMBDA y, x :
                                 [c \in 1..3 |->
                                    IF c = indice_canal THEN img_copia.px[y][x][c] + factor
                                    ELSE img_copia.px[y][x][c]])
             IN  Resultado(m, <<MapElem(sumada, LAMBDA v : clip(v, 0, MaxU8))>>)

AjustarBrilloCanal ==
    /\ fase = "listo"
    /\ \E canal \in Etiquetas, factor \in Deltas :
        Llamar(Llamada("ajustar_brillo_canal", canal, factor, 0, <<0, 0, 0, 0>>),
               ajustar_brillo_canal(mem, Imagen1, canal, factor))

----------------------------------------------------------------------------
(* Colour conversions *)

(* 256 - imagen, on uint8 *)
foto_negativa_256(m, imagen) ==
    Resultado(m, <<MapElem(Leer(m, imagen), LAMBDA r : (MaxU8 + 1 - r) % (MaxU8 + 1))>>)

(* 255 - imagen, on uint8 *)
foto_negativa(m, imagen) ==
    Resultado(m, <<MapElem(Leer(m, imagen), LAMBDA r : (MaxU8 - r) % (MaxU8 + 1))>>)

FotoNegativa ==
    /\ fase = "listo"
    /\ Llamar(Llamada("foto_negativa", "", 0, 0, <<0, 0, 0, 0>>), foto_negativa(mem, Imagen1))

----------------------------------------------------------------------------
(* Contrast *)

(* np.log1p on float32, for the integers 0..255: the binary32 value nearest
   to ln(1 + r), as <<m, e>> *)
Log1pTabla ==
    <<
       <<0, 0>>, <<11629080, -24>>, <<9215828, -23>>, <<11629080, -23>>, <<13500944, -23>>, <<15030368, -23>>,
       <<16323477, -23>>, <<8721810, -22>>, <<9215828, -22>>, <<9657742, -22>>, <<10057502, -22>>, <<10422454, -22>>,
       <<10758177, -22>>, <<11069009, -22>>, <<11358386, -22>>, <<11629080, -22>>, <<11883358, -22>>, <<12123098, -22>>,
       <<12349872, -22>>, <<12565012, -22>>, <<12769653, -22>>, <<12964772, -22>>, <<13151216, -22>>, <<13329724, -22>>,
       <<13500944, -22>>, <<13665447, -22>>, <<13823742, -22>>, <<13976279, -22>>, <<14123462, -22>>, <<14265656, -22>>,
       <<14403186, -22>>, <<14536350, -22>>, <<14665416, -22>>, <<14790628, -22>>, <<14912211, -22>>, <<15030368, -22>>,
       <<15145287, -22>>, <<15257142, -22>>, <<15366091, -22>>, <<15472282, -22>>, <<15575850, -22>>, <<15676923, -22>>,
       <<15775617, -22>>, <<15872042, -22>>, <<15966300, -22>>, <<16058486, -22>>, <<16148689, -22>>, <<16236994, -22>>,
       <<16323477, -22>>, <<16408214, -22>>, <<16491272, -22>>, <<16572717, -22>>, <<16652611, -22>>, <<16731012, -22>>,
       <<8403987, -21>>, <<8441774, -21>>, <<8478893, -21>>, <<8515366, -21>>, <<8551216, -21>>, <<8586463, -21>>,
       <<8621127, -21>>, <<8655228, -21>>, <<8688783, -21>>, <<8721810, -21>>, <<8754325, -21>>, <<8786343, -21>>,
       <<8817880, -21>>, <<8848949, -21>>, <<8879565, -21>>, <<8909740, -21>>, <<8939488, -21>>, <<8968819, -21>>,
       <<8997746, -21>>, <<9026279, -21>>, <<9054429, -21>>, <<9082206, -21>>, <<9109620, -21>>, <<9136681, -21>>,
       <<9163396, -21>>, <<9189776, -21>>, <<9215828, -21>>, <<9241560, -21>>, <<9266980, -21>>, <<9292096, -21>>,
       <<9316915, -21>>, <<9341443, -21>>, <<9365688, -21>>, <<9389656, -21>>, <<9413353, -21>>, <<9436785, -21>>,
       <<9459958, -21>>, <<9482878, -21>>, <<9505550, -21>>, <<9527980, -21>>, <<9550172, -21>>, <<9572132, -21>>,
       <<9593864, -21>>, <<9615374, -21>>, <<9636665, -21>>, <<9657742, -21>>, <<9678609, -21>>, <<9699271, -21>>,
       <<9719731, -21>>, <<9739994, -21>>, <<9760062, -21>>, <<9779941, -21>>, <<9799632, -21>>, <<9819141, -21>>,
       <<9838470, -21>>, <<9857622, -21>>, <<9876601, -21>>, <<9895409, -21>>, <<9914051, -21>>, <<9932528, -21>>,
       <<9950844, -21>>, <<9969001, -21>>, <<9987003, -21>>, <<10004851, -21>>, <<10022548, -21>>, <<10040098, -21>>,
       <<10057502, -21>>, <<10074762, -21>>, <<10091882, -21>>, <<10108863, -21>>, <<10125708, -21>>, <<10142418, -21>>,
       <<10158997, -21>>, <<10175445, -21>>, <<10191765, -21>>, <<10207960, -21>>, <<10224030, -21>>, <<10239978, -21>>,
       <<10255805, -21>>, <<10271515, -21>>, <<10287107, -21>>, <<10302584, -21>>, <<10317948, -21>>, <<10333200, -21>>,
       <<10348342, -21>>, <<10363375, -21>>, <<10378302, -21>>, <<10393123, -21>>, <<10407840, -21>>, <<10422454, -21>>,
       <<10436967, -21>>, <<10451381, -21>>, <<10465696, -21>>, <<10479914, -21>>, <<10494036, -21>>, <<10508064, -21>>,
       <<10521998, -21>>, <<10535841, -21>>, <<10549593, -21>>, <<10563255, -21>>, <<10576829, -21>>, <<10590316, -21>>,
       <<10603716, -21>>, <<10617031, -21>>, <<10630263, -21>>, <<10643411, -21>>, <<10656477, -21>>, <<10669463, -21>>,
       <<10682368, -21>>, <<10695195, -21>>, <<10707944, -21>>, <<10720615, -21>>, <<10733211, -21>>, <<10745731, -21>>,
       <<10758177, -21>>, <<10770550, -21>>, <<10782850, -21>>, <<10795078, -21>>, <<10807236, -21>>, <<10819323, -21>>,
       <<10831341, -21>>, <<10843291, -21>>, <<10855173, -21>>, <<10866988, -21>>, <<10878737, -21>>, <<10890420, -21>>,
       <<10902038, -21>>, <<10913593, -21>>, <<10925084, -21>>, <<10936513, -21>>, <<10947880, -21>>, <<10959185, -21>>,
       <<10970430, -21>>, <<10981615, -21>>, <<10992740, -21>>, <<11003807, -21>>, <<11014816, -21>>, <<11025767, -21>>,
       <<11036661, -21>>, <<11047499, -21>>, <<11058282, -21>>, <<11069009, -21>>, <<11079681, -21>>, <<11090300, -21>>,
       <<11100865, -21>>, <<11111377, -21>>, <<11121836, -21>>, <<11132244, -21>>, <<11142601, -21>>, <<11152906, -21>>,
       <<11163161, -21>>, <<11173366, -21>>, <<11183522, -21>>, <<11193629, -21>>, <<11203687, -21>>, <<11213697, -21>>,
       <<11223660, -21>>, <<11233576, -21>>, <<11243445, -21>>, <<11253267, -21>>, <<11263044, -21>>, <<11272776, -21>>,
       <<11282462, -21>>, <<11292105, -21>>, <<11301703, -21>>, <<11311257, -21>>, <<11320768, -21>>, <<11330236, -21>>,
       <<11339661, -21>>, <<11349044, -21>>, <<11358386, -21>>, <<11367686, -21>>, <<11376945, -21>>, <<11386163, -21>>,
       <<11395341, -21>>, <<11404479, -21>>, <<11413577, -21>>, <<11422636, -21>>, <<11431656, -21>>, <<11440638, -21>>,
       <<11449581, -21>>, <<11458486, -21>>, <<11467353, -21>>, <<11476183, -21>>, <<11484976, -21>>, <<11493733, -21>>,
       <<11502453, -21>>, <<11511137, -21>>, <<11519785, -21>>, <<11528397, -21>>, <<11536975, -21>>, <<11545517, -21>>,
       <<11554025, -21>>, <<11562498, -21>>, <<11570937, -21>>, <<11579343, -21>>, <<11587715, -21>>, <<11596053, -21>>,
       <<11604359, -21>>, <<11612632, -21>>, <<11620872, -21>>, <<11629080, -21>>
    >>

log1p(r) == F32Num(Log1pTabla[r + 1][1], Log1pTabla[r + 1][2])

(* a slider value in tenths (0.1 steps) as the float32 nearest to q / 10 *)
F32DeDecimas(q) == F32Div(F32DeEntero(q), F32DeEntero(10))

F32Max(S) == CHOOSE a \in S : \A b \in S : ~F32Menor(a, b)

(* astype(np.uint8) of a float: indef is what the conversion yields where C
   leaves it undefined *)
F32aU8(a, indef) == IF F32EnRangoU8(a) THEN F32Truncar(a) ELSE indef

Cs == {1, 10, 30}

(* the results the undefined float -> uint8 conversion may give *)
ConversionIndefinida == Niveles

(* normalised by ln(256), the largest logarithm a uint8 can give, and not by
   the largest value of the buffer *)
contraste_logaritmico_max_fijo(m, imagen, c, indef) ==
    LET img_float == Leer(m, imagen)
        vals == Elementos(img_float)
        log == [v \in vals |-> F32Mul(F32DeDecimas(c), log1p(v))]
    IN  IF vals = {} THEN Falla(m, "ValueError")
        ELSE LET max == log1p(MaxU8)
                 norm == [v \in vals |-> F32Mul(F32Div(log[v], max), F32DeEntero(MaxU8))]
             IN  Resultado(m, <<MapElem(img_float, LAMBDA v : F32aU8(norm[v], indef))>>)

contraste_logaritmico(m, imagen, c, indef) ==
    LET img_float == Leer(m, imagen)
        vals == Elementos(img_float)
        log == [v \in vals |-> F32Mul(F32DeDecimas(c), log1p(v))]
    IN  IF vals = {} THEN Falla(m, "ValueError")
        ELSE LET max == F32Max({log[v] : v \in vals})
                 norm == [v \in vals |-> F32Mul(F32Div(log[v], max), F32DeEntero(MaxU8))]
             IN  Resultado(m, <<MapElem(img_float, LAMBDA v : F32aU8(norm[v], indef))>>)

LogIndefinido(a, c) ==
    LET vals == Elementos(a)
        l == [u \in vals |-> F32Mul(F32DeDecimas(c), log1p(u))]
        max == F32Max({l[u] : u \in vals})
    IN  \E v \in vals : ~F32EnRangoU8(F32Mul(F32Div(l[v], max), F32DeEntero(MaxU8)))

ContrasteLogaritmico ==
    /\ fase = "listo"
    /\ \E c \in Cs :
      \E indef \in (IF LogIndefinido(Leer(mem, Imagen1), c) THEN ConversionIndefinida ELSE {0}) :
        Llamar(Llamada("contraste_logaritmico", "", 0, c, <<0, 0, 0, 0>>),
               contraste_logaritmico(mem, Imagen1, c, indef))

(* np.power(x, gamma) on float32, for the exponents at which pow is exact:
   pow(x, 0) = 1, pow(x, 1) = x, pow(0, -1) = +Inf, pow(1, -1) = 1 *)
Gammas == {-10, 0, 10}

potencia(x, gamma) ==
    CASE gamma = 0 -> F32DeEntero(1)
      [] gamma = 10 -> x
      [] gamma = -10 -> IF x.m = 0 THEN F32Inf ELSE F32Div(F32DeEntero(1), x)

(* normalised by 256 instead of 255 *)
contraste_exponencial_256(m, imagen, gamma, indef) ==
    LET img_float == Leer(m, imagen)
        vals == Elementos(img_float)
        img_gamma == [v \in vals |->
                        F32Mul(potencia(F32Div(F32DeEntero(v), F32DeEntero(MaxU8 + 1)), gamma),
                               F32DeEntero(MaxU8))]
    IN  Resultado(m, <<MapElem(img_float, LAMBDA v : F32aU8(img_gamma[v], indef))>>)

contraste_exponencial(m, imagen, gamma, indef) ==
    LET img_float == Leer(m, imagen)
        vals == Elementos(img_float)
        img_normalizada == [v \in vals |-> F32Div(F32DeEntero(v), F32DeEntero(MaxU8))]
        img_gamma == [v \in vals |->
                        F32Mul(potencia(img_normalizada[v], gamma), F32DeEntero(MaxU8))]
    IN  Resultado(m, <<MapElem(img_float, LAMBDA v : F32aU8(img_gamma[v], indef))>>)

ContrasteExponencial ==
    /\ fase = "listo"
    /\ \E gamma \in Gammas :
      /\ gamma < 0 => Elementos(Leer(mem, Imagen1)) \subseteq {0, MaxU8}
      /\ \E indef \in (IF gamma < 0 /\ 0 \in Elementos(Leer(mem, Imagen1))
                       THEN ConversionIndefinida ELSE {0}) :
           Llamar(Llamada("contraste_exponencial", "", 0, gamma, <<0, 0, 0, 0>>),
                  contraste_exponencial(mem, Imagen1, gamma, indef))

----------------------------------------------------------------------------
(* Geometry *)

Min(a, b) == IF a < b THEN a ELSE b

Max(a, b) == IF a > b THEN a ELSE b

(* Python's slice a:b on an axis of length n, as <<start, length>> *)
IndiceSlice(i, n) == IF i < 0 THEN Max(i + n, 0) ELSE Min(i, n)

Slice(a, b, n) == <<IndiceSlice(a, n), Max(IndiceSlice(b, n) - IndiceSlice(a, n), 0)>>

(* imagen[x1:x2, y1:y2]: the axes taken in the order of the arguments *)
recortar_imagen_xy(m, imagen, x1, y1, x2, y2) ==
    LET filas == Slice(x1, x2, imagen.h)
        cols == Slice(y1, y2, imagen.w)
    IN  [mem |-> m,
         ret |-> <<Vista(imagen.buf, imagen.y0 + filas[1], imagen.x0 + cols[1],
                         filas[2], cols[2])>>,
         hist |-> <<>>,
         error |-> ""]

(* imagen[max(y1, 0):y2, max(x1, 0):x2]: a negative start taken as 0 *)
recortar_imagen_desde_cero(m, imagen, x1, y1, x2, y2) ==
    LET filas == Slice(Max(y1, 0), y2, imagen.h)
        cols == Slice(Max(x1, 0), x2, imagen.w)
    IN  [mem |-> m,
         ret |-> <<Vista(imagen.buf, imagen.y0 + filas[1], imagen.x0 + cols[1],
                         filas[2], cols[2])>>,
         hist |-> <<>>,
         error |-> ""]

(* imagen[y1:y2, x1:x2]: basic slicing gives a view of the same storage *)
recortar_imagen(m, imagen, x1, y1, x2, y2) ==
    LET filas == Slice(y1, y2, imagen.h)
        cols == Slice(x1, x2, imagen.w)
    IN  [mem |-> m,
         ret |-> <<Vista(imagen.buf, imagen.y0 + filas[1], imagen.x0 + cols[1],
                         filas[2], cols[2])>>,
         hist |-> <<>>,
         error |-> ""]

(* coordinates before, at and past each edge, and one inside *)
CoordsX == {-1, 0, 1, MaxAncho, MaxAncho + 1}

CoordsY == {-1, 0, 1, MaxAlto, MaxAlto + 1}

RecortarImagen ==
    /\ fase = "listo"
    /\ \E x1 \in CoordsX, x2 \in CoordsX, y1 \in CoordsY, y2 \in CoordsY :
        Llamar(Llamada("recortar_imagen", "", 0, 0, <<x1, y1, x2, y2>>),
               recortar_imagen(mem, Imagen1, x1, y1, x2, y2))

----------------------------------------------------------------------------
(* Histogram *)

NumBins == 256

(* np.histogram(a, bins, range=(0, hasta)) over equal-width bins: the bin of
   value v; a value equal to the last edge falls in the last bin *)
BinDe(v, bins, hasta) ==
    LET idx == (v * bins) \div hasta IN IF idx = bins THEN bins - 1 ELSE idx

histograma(a, c, bins, hasta) ==
    [b \in 0..(bins - 1) |->
        Cardinality({p \in (1..a.h) \X (1..a.w) :
                        /\ a.px[p[1]][p[2]][c] <= hasta
                        /\ BinDe(a.px[p[1]][p[2]][c], bins, hasta) = b})]

(* bins=255, range=(0, 255) *)
calcular_histograma_255(m, imagen) ==
    LET img == Leer(m, imagen)
    IN  [mem |-> m,
         ret |-> <<>>,
         hist |-> [c \in 1..3 |-> histograma(img, c, NumBins - 1, NumBins - 1)],
         error |-> ""]

calcular_histograma(m, imagen) ==
    LET img == Leer(m, imagen)
    IN  [mem |-> m,
         ret |-> <<>>,
         hist |-> [c \in 1..3 |-> histograma(img, c, NumBins, NumBins)],
         error |-> ""]

CalcularHistograma ==
    /\ fase = "listo"
    /\ Llamar(Llamada("calcular_histograma", "", 0, 0, <<0, 0, 0, 0>>),
           calcular_histograma(mem, Imagen1))

----------------------------------------------------------------------------
(* Channel extraction *)

(* np.zeros_like(imagen) with channel i set to the source's channel i *)
SoloCanal(a, i) ==
    Arreglo(a.h, a.w, LAMBDA y, x : [c \in 1..3 |-> IF c = i THEN a.px[y][x][i] ELSE 0])

(* the blue view filled from the red channel *)
extraer_rgb_copia(m, imagen) ==
    LET img == Leer(m, imagen)
    IN  Resultado(m, <<SoloCanal(img, 1), SoloCanal(img, 2),
                       Arreglo(img.h, img.w, LAMBDA y, x : <<0, 0, img.px[y][x][1]>>)>>)

extraer_rgb(m, imagen) ==
    LET img == Leer(m, imagen)
    IN  Resultado(m, <<SoloCanal(img, 1), SoloCanal(img, 2), SoloCanal(img, 3)>>)

ExtraerRGB ==
    /\ fase = "listo"
    /\ Llamar(Llamada("extraer_rgb", "", 0, 0, <<0, 0, 0, 0>>), extraer_rgb(mem, Imagen1))

----------------------------------------------------------------------------
(* OpenCV on 8-bit arrays.  Each function returns a new array.              *)

FloorDiv(a, b) == IF a >= 0 THEN a \div b ELSE -((b - 1 - a) \div b)

(* CV_DESCALE(x, n) = (x + (1 << (n-1))) >> n, an arithmetic shift *)
Descalar(x, n) == FloorDiv(x + Pow2(n - 1), Pow2(n))

saturate_u8(v) == clip(v, 0, MaxU8)

Gris(a, g(_, _)) == Arreglo(a.h, a.w, LAMBDA y, x : <<g(y, x)>>)

(* COLOR_RGB2GRAY: 15-bit fixed-point weights of 0.299, 0.587, 0.114 *)
RY15 == 9798

GY15 == 19235

BY15 == 3735

gray_shift == 15

RGB2GRAY_pixel(p) == Descalar(p[1] * RY15 + p[2] * GY15 + p[3] * BY15, gray_shift)

cvtColor_RGB2GRAY(a) == Gris(a, LAMBDA y, x : RGB2GRAY_pixel(a.px[y][x]))

cvtColor_GRAY2RGB(a) ==
    Arreglo(a.h, a.w, LAMBDA y, x : <<a.px[y][x][1], a.px[y][x][1], a.px[y][x][1]>>)

(* THRESH_BINARY: maxval where src > thresh, 0 elsewhere *)
threshold(a, thresh, maxval) ==
    Gris(a, LAMBDA y, x : IF a.px[y][x][1] > thresh THEN maxval ELSE 0)

(* COLOR_RGB2YUV and COLOR_YUV2RGB: 14-bit fixed point *)
yuv_shift == 14

R2Y == 4899

G2Y == 9617

B2Y == 1868

R2VI == 14369

B2UI == 8061

U2BI == 33292

U2GI == -6472

V2GI == -9519

V2RI == 18678

Delta8 == 128

RGB2YUV_pixel(p) ==
    LET Y == Descalar(p[1] * R2Y + p[2] * G2Y + p[3] * B2Y, yuv_shift)
        V == Descalar((p[1] - Y) * R2VI + Delta8 * Pow2(yuv_shift), yuv_shift)
        U == Descalar((p[3] - Y) * B2UI + Delta8 * Pow2(yuv_shift), yuv_shift)
    IN  <<saturate_u8(Y), saturate_u8(U), saturate_u8(V)>>

YUV2RGB_pixel(p) ==
    LET b == p[1] + Descalar((p[2] - Delta8) * U2BI, yuv_shift)
        g == p[1] + Descalar((p[2] - Delta8) * U2GI + (p[3] - Delta8) * V2GI, yuv_shift)
        r == p[1] + Descalar((p[3] - Delta8) * V2RI, yuv_shift)
    IN  <<saturate_u8(r), saturate_u8(g), saturate_u8(b)>>

cvtColor_RGB2YUV(a) == Arreglo(a.h, a.w, LAMBDA y, x : RGB2YUV_pixel(a.px[y][x]))

cvtColor_YUV2RGB(a) == Arreglo(a.h, a.w, LAMBDA y, x : YUV2RGB_pixel(a.px[y][x]))

(* equalizeHist of a one-channel array: with i the lowest value present, an
   array holding only i is copied; otherwise value v maps to
   saturate(cvRound(sum * scale)), sum the number of elements in (i, v] and
   scale the float 255 / (total - hist[i]) *)
equalizeHist(a) ==
    LET vals == {a.px[y][x][1] : y \in 1..a.h, x \in 1..a.w}
        total == a.h * a.w
        i == CHOOSE v \in vals : \A u \in vals : v <= u
        cuenta == [v \in vals |->
                     Cardinality({p \in (1..a.h) \X (1..a.w) : a.px[p[1]][p[2]][1] = v})]
        scale == F32Div(F32DeEntero(MaxU8), F32DeEntero(total - cuenta[i]))
        SumaHasta == [v \in vals |->
                        Cardinality({p \in (1..a.h) \X (1..a.w) :
                                        a.px[p[1]][p[2]][1] > i /\ a.px[p[1]][p[2]][1] <= v})]
        lut == [v \in vals |->
                  saturate_u8(F32Redondeo(F32Mul(F32DeEntero(SumaHasta[v]), scale)))]
    IN  IF vals = {} \/ cuenta[i] = total THEN a
        ELSE Gris(a, LAMBDA y, x : lut[a.px[y][x][1]])

(* resize, INTER_LINEAR.  Sample d of k (0-based) sits at source position
   (d + 0.5) * n / k - 0.5 among n samples: s is its floor and a1 the weight
   of sample s + 1, a0 that of s, in units of 2^-11.  For the sizes used here
   the position is far enough from a rounding tie that the float it is
   computed in does not matter. *)
INTER_RESIZE_COEF_BITS == 11

Muestra(d, n, k) ==
    LET pos == (2 * d + 1) * n - k
        s == FloorDiv(pos, 2 * k)
        f == pos - s * 2 * k
    IN  [s |-> s,
         a0 |-> (Pow2(INTER_RESIZE_COEF_BITS) * (2 * k - f) + k) \div (2 * k),
         a1 |-> (Pow2(INTER_RESIZE_COEF_BITS) * f + k) \div (2 * k)]

(* the horizontal pass: outside the row the edge sample has all the weight *)
HResizeLinear(fila, dx, c, n, k) ==
    LET t == Muestra(dx, n, k)
    IN  IF t.s < 0 THEN fila[1][c] * Pow2(INTER_RESIZE_COEF_BITS)
        ELSE IF t.s >= n - 1 THEN fila[n][c] * Pow2(INTER_RESIZE_COEF_BITS)
        ELSE fila[t.s + 1][c] * t.a0 + fila[t.s + 2][c] * t.a1

(* the vertical pass: the two rows are clipped to the array, the weights are
   kept *)
VResizeLinear(S0, S1, b0, b1) ==
    (((b0 * (S0 \div 16)) \div Pow2(16)) + ((b1 * (S1 \div 16)) \div Pow2(16)) + 2) \div 4

(* halving both axes exactly is done as the mean of each 2 x 2 block *)
ResizeAreaFast(a, dw, dh) ==
    Arreglo(dh, dw, LAMBDA y, x : [c \in 1..3 |->
        (a.px[2 * y - 1][2 * x - 1][c] + a.px[2 * y - 1][2 * x][c]
         + a.px[2 * y][2 * x - 1][c] + a.px[2 * y][2 * x][c] + 2) \div 4])

resize(a, dw, dh) ==
    IF dw = a.w /\ dh = a.h THEN a
    ELSE IF a.w = 2 * dw /\ a.h = 2 * dh THEN ResizeAreaFast(a, dw, dh)
    ELSE Arreglo(dh, dw, LAMBDA y, x : [c \in 1..3 |->
            LET t == Muestra(y - 1, a.h, dh)
                fila0 == a.px[clip(t.s, 0, a.h - 1) + 1]
                fila1 == a.px[clip(t.s + 1, 0, a.h - 1) + 1]
            IN  VResizeLinear(HResizeLinear(fila0, x - 1, c, a.w, dw),
                              HResizeLinear(fila1, x - 1, c, a.w, dw), t.a0, t.a1)])

(* warpAffine with the matrix of getRotationMatrix2D(centro, angulo, 1.0) for
   a multiple of 90 degrees, where the inverse map lands on whole pixels;
   what falls outside the source takes borderValue *)
Angulos == {-180, -90, 0, 90, 180}

BordeBlanco == <<MaxU8, MaxU8, MaxU8>>

Origen(x, y, cx, cy, angulo) ==
    CASE angulo = 0 -> <<x, y>>
      [] angulo = 90 -> <<cx + cy - y, x - cx + cy>>
      [] angulo \in {180, -180} -> <<2 * cx - x, 2 * cy - y>>
      [] angulo = -90 -> <<y + cx - cy, cx + cy - x>>

warpAffine(a, centro, angulo, borderValue) ==
    Arreglo(a.h, a.w, LAMBDA y, x :
        LET o == Origen(x - 1, y - 1, centro[1], centro[2], angulo)
        IN  IF o[1] \in 0..(a.w - 1) /\ o[2] \in 0..(a.h - 1)
            THEN a.px[o[2] + 1][o[1] + 1] ELSE borderValue)

(* addWeighted(a, alpha, b, beta, 0): saturate(cvRound(a*alpha + b*beta + 0))
   in float arithmetic, the weights given in tenths *)
addWeighted(a, alpha, b, beta) ==
    LET fa == F32DeDecimas(alpha)
        fb == F32DeDecimas(beta)
        pares == {<<a.px[y][x][c], b.px[y][x][c]>> : y \in 1..a.h, x \in 1..a.w, c \in 1..3}
        mezcla == [p \in pares |->
                     saturate_u8(F32Redondeo(F32Suma(F32Suma(F32Mul(F32DeEntero(p[1]), fa),
                                                             F32Mul(F32DeEntero(p[2]), fb)),
                                                     F32Cero)))]
    IN  Arreglo(a.h, a.w, LAMBDA y, x :
            [c \in 1..3 |-> mezcla[<<a.px[y][x][c], b.px[y][x][c]>>]])

----------------------------------------------------------------------------
(* Zoom and rotation *)

(* zoom factors in tenths, each one a float holds exactly *)
Factores == {5, 10, 15, 20}

(* the window taken from the corner of the resized array, not its centre *)
aplicar_zoom_sin_centrar(m, imagen, factor) ==
    LET img == Leer(m, imagen)
        altura == img.h
        ancho == img.w
        nuevo_ancho == (ancho * factor) \div 10
        nuevo_alto == (altura * factor) \div 10
        inicio_x == 0
        inicio_y == 0
        r == Resultado(m, <<resize(img, nuevo_ancho, nuevo_alto)>>)
    IN  IF nuevo_ancho = 0 \/ nuevo_alto = 0 THEN Falla(m, "cv2.error")
        ELSE IF factor > 10
             THEN [r EXCEPT !.ret = <<Vista(Salidas[1], inicio_y, inicio_x, altura, ancho)>>]
             ELSE r

(* the resized array is new; for factor > 1 the method returns the centred
   window of it, a view *)
aplicar_zoom(m, imagen, factor) ==
    LET img == Leer(m, imagen)
        altura == img.h
        ancho == img.w
        nuevo_ancho == (ancho * factor) \div 10
        nuevo_alto == (altura * factor) \div 10
        inicio_x == (nuevo_ancho - ancho) \div 2
        inicio_y == (nuevo_alto - altura) \div 2
        r == Resultado(m, <<resize(img, nuevo_ancho, nuevo_alto)>>)
    IN  IF nuevo_ancho = 0 \/ nuevo_alto = 0 THEN Falla(m, "cv2.error")
        ELSE IF factor > 10
             THEN [r EXCEPT !.ret = <<Vista(Salidas[1], inicio_y, inicio_x, altura, ancho)>>]
             ELSE r

AplicarZoom ==
    /\ fase = "listo"
    /\ \E factor \in Factores :
        Llamar(Llamada("aplicar_zoom", "", 0, factor, <<0, 0, 0, 0>>),
               aplicar_zoom(mem, Imagen1, factor))

rotar_imagen(m, imagen, angulo) ==
    LET img == Leer(m, imagen)
        centro == <<img.w \div 2, img.h \div 2>>
    IN  IF Vacio(img) THEN Falla(m, "cv2.error")
        ELSE Resultado(m, <<warpAffine(img, centro, angulo, BordeBlanco)>>)

RotarImagen ==
    /\ fase = "listo"
    /\ \E angulo \in Angulos :
        Llamar(Llamada("rotar_imagen", "", angulo, 0, <<0, 0, 0, 0>>),
               rotar_imagen(mem, Imagen1, angulo))

----------------------------------------------------------------------------
(* Histogram figure, equalisation and blending *)

(* the figure holds the three plotted histograms *)
visualizar_histograma(m, imagen) == calcular_histograma(m, imagen)

VisualizarHistograma ==
    /\ fase = "listo"
    /\ Llamar(Llamada("visualizar_histograma", "", 0, 0, <<0, 0, 0, 0>>),
           visualizar_histograma(mem, Imagen1))

(* blend weights in tenths *)
Alfas == 0..10

(* the second rasters the caller may pass *)
Segundas ==
    {Codificado(h, w) : h \in 1..MaxAlto, w \in 1..MaxAncho}
    \cup {Uniforme(1, 1, col) : col \in Colores}

(* a raster is blended with itself and, the ramp apart, with each of Segundas *)
SegundasDe(a) == IF a = Rampa THEN {a} ELSE Segundas \cup {a}

(* the second weight given as alpha, not 1 - alpha *)
fusionar_imagenes_sin_complemento(m, img1, img2, alpha) ==
    LET a == Leer(m, img1)
        b == Leer(m, img2)
        redim == IF MismaForma(a, b) THEN b ELSE resize(b, a.w, a.h)
    IN  Resultado(m, <<addWeighted(a, alpha, redim, alpha)>>)

(* img1 resized to the size of img2 *)
fusionar_imagenes_al_segundo(m, img1, img2, alpha) ==
    LET a == Leer(m, img1)
        b == Leer(m, img2)
        redim == IF MismaForma(a, b) THEN a ELSE resize(a, b.w, b.h)
    IN  Resultado(m, <<addWeighted(redim, alpha, b, 10 - alpha)>>)

(* cv2.resize refuses an empty source and an empty size *)
fusionar_imagenes(m, img1, img2, alpha) ==
    LET a == Leer(m, img1)
        b == Leer(m, img2)
        redim == IF MismaForma(a, b) THEN b ELSE resize(b, a.w, a.h)
    IN  IF ~MismaForma(a, b) /\ (Vacio(a) \/ Vacio(b)) THEN Falla(m, "cv2.error")
        ELSE Resultado(m, <<addWeighted(a, alpha, redim, 10 - alpha)>>)

FusionarImagenes ==
    /\ fase = "listo"
    /\ \E b \in SegundasDe(mem["img1"]), alpha \in Alfas :
        LET m == [mem EXCEPT !["img2"] = b]
        IN  LlamarCon(Llamada("fusionar_imagenes", "", 0, alpha, <<0, 0, 0, 0>>),
                      <<mem["img1"], b>>,
                      fusionar_imagenes(m, VistaCompleta(m, "img1"),
                                        VistaCompleta(m, "img2"), alpha))

Canal(a, c) == Gris(a, LAMBDA y, x : a.px[y][x][c])

(* v[:, :, c] = g, an assignment into the storage view v shows *)
AsignarCanal(m, v, c, g) ==
    [m EXCEPT ![v.buf] =
        Arreglo(m[v.buf].h, m[v.buf].w, LAMBDA y, x :
            IF y - v.y0 \in 1..v.h /\ x - v.x0 \in 1..v.w
            THEN [m[v.buf].px[y][x] EXCEPT ![c] = g.px[y - v.y0][x - v.x0][1]]
            ELSE m[v.buf].px[y][x])]

(* a local array goes out of scope *)
Liberar(r, b) == [r EXCEPT !.mem[b] = SinBuffer]

(* the equalised luminance assigned into the argument instead of img_yuv *)
ecualizar_histograma_en_sitio(m, imagen) ==
    LET m1 == [m EXCEPT !["tmp1"] = cvtColor_RGB2YUV(Leer(m, imagen))]
        img_yuv == VistaCompleta(m1, "tmp1")
        m2 == AsignarCanal(m1, imagen, 1, equalizeHist(Canal(Leer(m1, img_yuv), 1)))
    IN  Liberar(Resultado(m2, <<cvtColor_YUV2RGB(Leer(m2, img_yuv))>>), "tmp1")

(* img_yuv is a new array; its channel 0 is overwritten in place *)
ecualizar_histograma(m, imagen) ==
    LET m1 == [m EXCEPT !["tmp1"] = cvtColor_RGB2YUV(Leer(m, imagen))]
        img_yuv == VistaCompleta(m1, "tmp1")
        m2 == AsignarCanal(m1, img_yuv, 1, equalizeHist(Canal(Leer(m1, img_yuv), 1)))
    IN  IF Vacio(imagen) THEN Falla(m, "cv2.error")
        ELSE Liberar(Resultado(m2, <<cvtColor_YUV2RGB(Leer(m2, img_yuv))>>), "tmp1")

EcualizarHistograma ==
    /\ fase = "listo"
    /\ Llamar(Llamada("ecualizar_histograma", "", 0, 0, <<0, 0, 0, 0>>),
           ecualizar_histograma(mem, Imagen1))

(* img2 blended as it came, not equalised *)
fusionar_ecualizadas_a_medias(m, img1, img2, alpha) ==
    LET r1 == ecualizar_histograma(m, img1)
        m1 == [r1.mem EXCEPT !["tmp2"] = r1.mem[Salidas[1]], ![Salidas[1]] = SinBuffer]
        img1_eq == VistaCompleta(m1, "tmp2")
    IN  Liberar(fusionar_imagenes(m1, img1_eq, img2, alpha), "tmp2")

(* img1_eq is held in tmp2 while img2 is equalised *)
fusionar_ecualizadas(m, img1, img2, alpha) ==
    LET r1 == ecualizar_histograma(m, img1)
        m1 == [r1.mem EXCEPT !["tmp2"] = r1.mem[Salidas[1]], ![Salidas[1]] = SinBuffer]
        img1_eq == VistaCompleta(m1, "tmp2")
        r2 == ecualizar_histograma(m1, img2)
        img2_eq == r2.ret[1]
    IN  IF r1.error # "" THEN Falla(m, r1.error)
        ELSE IF r2.error # "" THEN Falla(m, r2.error)
        ELSE Liberar(fusionar_imagenes(r2.mem, img1_eq, img2_eq, alpha), "tmp2")

(* the weights of the equalised blend: the two ends, the middle and one
   that weighs the rasters unequally *)
AlfasEcualizadas == {0, 3, 5, 10}

FusionarEcualizadas ==
    /\ fase = "listo"
    /\ \E b \in SegundasDe(mem["img1"]), alpha \in AlfasEcualizadas :
        LET m == [mem EXCEPT !["img2"] = b]
        IN  LlamarCon(Llamada("fusionar_ecualizadas", "", 0, alpha, <<0, 0, 0, 0>>),
                      <<mem["img1"], b>>,
                      fusionar_ecualizadas(m, VistaCompleta(m, "img1"),
                                           VistaCompleta(m, "img2"), alpha))

----------------------------------------------------------------------------
(* CMYK, gray and binary *)

(* the denominator forced to 1 at every pixel, not only where 1 - K is 0 *)
extraer_cmyk_denominador_uno(m, imagen) ==
    LET img == Leer(m, imagen)
        uno == F32DeEntero(1)
        img_float == [v \in Elementos(img) |-> F32Div(F32DeEntero(v), F32DeEntero(MaxU8))]
        K(p) == F32Resta(uno, F32Max({img_float[p[c]] : c \in 1..3}))
        CMY(p, c) == F32Div(F32Resta(F32Resta(uno, img_float[p[c]]), K(p)), uno)
        a255(v) == F32aU8(F32Mul(v, F32DeEntero(MaxU8)), 0)
    IN  Resultado(m, <<Gris(img, LAMBDA y, x : a255(CMY(img.px[y][x], 1))),
                       Gris(img, LAMBDA y, x : a255(CMY(img.px[y][x], 2))),
                       Gris(img, LAMBDA y, x : a255(CMY(img.px[y][x], 3))),
                       Gris(img, LAMBDA y, x : a255(K(img.px[y][x])))>>)

(* every value converted to uint8 here lies in [0, 255]: the conversion
   truncates *)
extraer_cmyk(m, imagen) ==
    LET img == Leer(m, imagen)
        uno == F32DeEntero(1)
        img_float == [v \in Elementos(img) |-> F32Div(F32DeEntero(v), F32DeEntero(MaxU8))]
        K(p) == F32Resta(uno, F32Max({img_float[p[c]] : c \in 1..3}))
        K_inv(p) == IF F32Resta(uno, K(p)).m = 0 THEN uno ELSE F32Resta(uno, K(p))
        CMY(p, c) == F32Div(F32Resta(F32Resta(uno, img_float[p[c]]), K(p)), K_inv(p))
        a255(v) == F32aU8(F32Mul(v, F32DeEntero(MaxU8)), 0)
    IN  Resultado(m, <<Gris(img, LAMBDA y, x : a255(CMY(img.px[y][x], 1))),
                       Gris(img, LAMBDA y, x : a255(CMY(img.px[y][x], 2))),
                       Gris(img, LAMBDA y, x : a255(CMY(img.px[y][x], 3))),
                       Gris(img, LAMBDA y, x : a255(K(img.px[y][x])))>>)

ExtraerCMYK ==
    /\ fase = "listo"
    /\ Llamar(Llamada("extraer_cmyk", "", 0, 0, <<0, 0, 0, 0>>), extraer_cmyk(mem, Imagen1))

(* the conversion code of the other channel order, COLOR_BGR2GRAY *)
convertir_grises_bgr(m, imagen) ==
    LET img == Leer(m, imagen)
        img_gris == Gris(img, LAMBDA y, x :
                        Descalar(img.px[y][x][3] * RY15 + img.px[y][x][2] * GY15
                                 + img.px[y][x][1] * BY15, gray_shift))
    IN  Resultado(m, <<cvtColor_GRAY2RGB(img_gris)>>)

convertir_grises(m, imagen) ==
    LET img_gris == cvtColor_RGB2GRAY(Leer(m, imagen))
    IN  IF Vacio(imagen) THEN Falla(m, "cv2.error")
        ELSE Resultado(m, <<cvtColor_GRAY2RGB(img_gris)>>)

ConvertirGrises ==
    /\ fase = "listo"
    /\ Llamar(Llamada("convertir_grises", "", 0, 0, <<0, 0, 0, 0>>),
           convertir_grises(mem, Imagen1))

(* thresholds at the ends of the range and around the grays of CasiMedios
   and of the mid-gray 127; the ramp puts every gray on both sides of each *)
Umbrales == {0, 1, 34, 35, 126, 127, 128, 254, 255}

(* white from the threshold on: >= where the code has > *)
binarizar_desde_umbral(m, imagen, umbral) ==
    LET img == Leer(m, imagen)
        img_gris == IF Canales(img) = 3 THEN cvtColor_RGB2GRAY(img) ELSE img
        img_binaria == threshold(img_gris, umbral - 1, MaxU8)
    IN  Resultado(m, <<cvtColor_GRAY2RGB(img_binaria)>>)

binarizar(m, imagen, umbral) ==
    LET img == Leer(m, imagen)
        img_gris == IF Canales(img) = 3 THEN cvtColor_RGB2GRAY(img) ELSE img
        img_binaria == threshold(img_gris, umbral, MaxU8)
    IN  IF Vacio(img) THEN Falla(m, "cv2.error")
        ELSE Resultado(m, <<cvtColor_GRAY2RGB(img_binaria)>>)

Binarizar ==
    /\ fase = "listo"
    /\ \E umbral \in Umbrales :
        Llamar(Llamada("binarizar", "", umbral, 0, <<0, 0, 0, 0>>),
               binarizar(mem, Imagen1, umbral))

----------------------------------------------------------------------------
(* The caller, after the call: it assigns to the first element of channel c
   of an array it holds, through the array's view *)

Escribir(m, v, c, valor) ==
    [m EXCEPT ![v.buf].px[v.y0 + 1][v.x0 + 1][c] = valor]

PrimerElem(m, v, c) == m[v.buf].px[v.y0 + 1][v.x0 + 1][c]

EscribirSalida ==
    /\ fase = "retornado"
    /\ escrito = ""
    /\ \E i \in 1..Len(ret), c \in 1..3 :
         /\ ret[i].h > 0 /\ ret[i].w > 0
         /\ c <= Len(mem[ret[i].buf].px[ret[i].y0 + 1][ret[i].x0 + 1])
         /\ mem' = Escribir(mem, ret[i], c, MaxU8 - PrimerElem(mem, ret[i], c))
    /\ escrito' = "salida"
    /\ UNCHANGED <<fase, llamada, ret, hist, ent0, ret0>>
    /\ UNCHANGED interfaz

EscribirEntrada ==
    /\ fase = "retornado"
    /\ escrito = ""
    /\ \E c \in 1..3 :
         mem' = Escribir(mem, Imagen1, c, MaxU8 - PrimerElem(mem, Imagen1, c))
    /\ escrito' = "entrada"
    /\ UNCHANGED <<fase, llamada, ret, hist, ent0, ret0>>
    /\ UNCHANGED interfaz

----------------------------------------------------------------------------

Next ==
    \/ AjustarBrilloGlobal
    \/ AjustarBrilloCanal
    \/ ContrasteLogaritmico
    \/ ContrasteExponencial
    \/ RecortarImagen
    \/ CalcularHistograma
    \/ ExtraerRGB
    \/ FotoNegativa
    \/ AplicarZoom
    \/ RotarImagen
    \/ VisualizarHistograma
    \/ FusionarImagenes
    \/ EcualizarHistograma
    \/ FusionarEcualizadas
    \/ ExtraerCMYK
    \/ ConvertirGrises
    \/ Binarizar
    \/ EscribirSalida
    \/ EscribirEntrada

Spec == Init /\ [][Next]_vars

----------------------------------------------------------------------------
(* The application: AplicacionProcesamiento (src/main.py).  A handler reads *)
(* the image on display into a fresh array (np.array), calls the engine,   *)
(* and assigns Image.fromarray of the result to imagen_procesada; an       *)
(* exception anywhere in its try block ends in messagebox.showerror.       *)

MaxPasos == 3

(* the files the user may open: a row of distinct pixels and a single pixel *)
Archivos == {Codificado(1, MaxAncho), Uniforme(1, 1, <<200, 0, 0>>)}

SegundosArchivos == {Uniforme(1, 1, <<255, 255, 255>>)}

(* the position the model moves each slider to *)
PosicionesBrillo ==
    [var_brillo_global |-> 100, var_brillo_r |-> -100, var_brillo_g |-> 100,
     var_brillo_b |-> -100]

OtrasPosiciones ==
    [var_gamma |-> 20, var_c_log |-> 1, var_umbral |-> 34, var_alpha_fusion |-> 3,
     var_angulo_rotacion |-> 90]

(* the texts typed into the crop dialog: the top-left pixel, and a rectangle
   of no width *)
RectangulosUI == {<<0, 0, 1, 1>>, <<1, 0, 1, 1>>}

imagenes == <<imagen_original, imagen_procesada, imagen_segunda>>

(* np.array(imagen): a fresh array, the only one in memory, and its view *)
np_array(imagen) == MemoriaCon(imagen)

Arg(imagen) == Vista("img1", 0, 0, imagen.h, imagen.w)

(* every handler: what the history variables record; the model follows the
   application for MaxPasos handlers *)
Manejador(nombre) ==
    /\ pasos < MaxPasos
    /\ pasos' = pasos + 1
    /\ accion' = nombre
    /\ anterior' = Estado
    /\ UNCHANGED motor

(* the handler returns at its guard, with a warning *)
Advertencia(nombre) ==
    /\ Manejador(nombre)
    /\ mensaje' = "showwarning"
    /\ fallo' = ""
    /\ UNCHANGED <<imagenes, controles>>

(* the image on display dropped for the original when a handler fails *)
Excepcion_restaurando(origen) ==
    /\ mensaje' = "showerror"
    /\ fallo' = origen
    /\ imagen_procesada' = imagen_original
    /\ UNCHANGED <<imagen_original, imagen_segunda>>

(* except Exception: messagebox.showerror; nothing was assigned *)
Excepcion(origen) ==
    /\ mensaje' = "showerror"
    /\ fallo' = origen
    /\ UNCHANGED imagenes

(* the result kept as the original too *)
Mostrar_sobre_original(a) ==
    \E img \in {a} :
        \/ /\ imagen_procesada' = img
           /\ imagen_original' = img
           /\ mensaje' = ""
           /\ fallo' = ""
           /\ UNCHANGED imagen_segunda
        \/ /\ Vacio(img)
           /\ Excepcion("interfaz")

(* self.imagen_procesada = Image.fromarray(a); self.mostrar_imagen().
   Pillow takes an array without elements or raises ValueError, by its
   version, and ImageTk.PhotoImage may raise on an image without pixels
   once it is assigned *)
Mostrar(a) ==
    \E img \in {a} :
        \/ /\ imagen_procesada' = img
           /\ mensaje' = ""
           /\ fallo' = ""
           /\ UNCHANGED <<imagen_original, imagen_segunda>>
        \/ /\ Vacio(img)
           /\ Excepcion("interfaz")
        \/ /\ Vacio(img)
           /\ imagen_procesada' = img
           /\ mensaje' = "showerror"
           /\ fallo' = "interfaz"
           /\ UNCHANGED <<imagen_original, imagen_segunda>>

(* the try block of a transformation handler whose engine call came out as
   r: the i-th returned array goes on display *)
Transformacion(nombre, r, i) ==
    /\ Manejador(nombre)
    /\ UNCHANGED controles
    /\ \E res \in {r} :
         IF res.error # "" THEN Excepcion("motor") ELSE Mostrar(Leer(res.mem, res.ret[i]))

(* a file is chosen: it opens, or Image.open raises *)
App_abrir_imagen ==
    /\ Manejador("abrir_imagen")
    /\ \/ \E img \in Archivos :
            /\ imagen_original' = img
            /\ imagen_procesada' = img
            /\ controles' = ControlesPorDefecto
            /\ mensaje' = ""
            /\ fallo' = ""
            /\ UNCHANGED imagen_segunda
       \/ /\ Excepcion("interfaz")
          /\ UNCHANGED controles

(* without the guard on imagen_original *)
App_abrir_segunda_imagen_sin_guarda ==
    /\ Manejador("abrir_segunda_imagen")
    /\ UNCHANGED controles
    /\ \/ \E img \in SegundosArchivos :
            /\ imagen_segunda' = img
            /\ mensaje' = "showinfo"
            /\ fallo' = ""
            /\ UNCHANGED <<imagen_original, imagen_procesada>>
       \/ Excepcion("interfaz")

App_abrir_segunda_imagen ==
    \/ /\ imagen_original = None
       /\ Advertencia("abrir_segunda_imagen")
    \/ /\ imagen_original # None
       /\ Manejador("abrir_segunda_imagen")
       /\ UNCHANGED controles
       /\ \/ \E img \in SegundosArchivos :
               /\ imagen_segunda' = img
               /\ mensaje' = "showinfo"
               /\ fallo' = ""
               /\ UNCHANGED <<imagen_original, imagen_procesada>>
          \/ Excepcion("interfaz")

App_guardar_imagen ==
    \/ /\ imagen_procesada = None
       /\ Advertencia("guardar_imagen")
    \/ /\ imagen_procesada # None
       /\ Manejador("guardar_imagen")
       /\ UNCHANGED controles
       /\ \/ /\ mensaje' = "showinfo"
             /\ fallo' = ""
             /\ UNCHANGED imagenes
          \/ Excepcion("interfaz")

(* the channels first and the global delta last *)
aplicar_transformacion_canales_primero(imagen, c) ==
    LET Paso(a, delta, r) ==
            IF delta = 0 \/ a.error # "" THEN a
            ELSE [error |-> r.error,
                  img_array |-> IF r.error = "" THEN Leer(r.mem, r.ret[1]) ELSE a.img_array]
        a0 == [error |-> "", img_array |-> imagen]
        a1 == Paso(a0, c.var_brillo_r,
                   ajustar_brillo_canal(np_array(a0.img_array), Arg(a0.img_array), "R", c.var_brillo_r))
        a2 == Paso(a1, c.var_brillo_g,
                   ajustar_brillo_canal(np_array(a1.img_array), Arg(a1.img_array), "G", c.var_brillo_g))
        a3 == Paso(a2, c.var_brillo_b,
                   ajustar_brillo_canal(np_array(a2.img_array), Arg(a2.img_array), "B", c.var_brillo_b))
    IN  Paso(a3, c.var_brillo_global,
             ajustar_brillo_global(np_array(a3.img_array), Arg(a3.img_array), c.var_brillo_global))

(* the body of aplicar_transformacion's try block on the array of imagen,
   with the control values c: the global delta, then R, G and B, each call
   skipped when its delta is 0 *)
aplicar_transformacion(imagen, c) ==
    LET Paso(a, delta, r) ==
            IF delta = 0 \/ a.error # "" THEN a
            ELSE [error |-> r.error,
                  img_array |-> IF r.error = "" THEN Leer(r.mem, r.ret[1]) ELSE a.img_array]
        a0 == [error |-> "", img_array |-> imagen]
        a1 == Paso(a0, c.var_brillo_global,
                   ajustar_brillo_global(np_array(a0.img_array), Arg(a0.img_array), c.var_brillo_global))
        a2 == Paso(a1, c.var_brillo_r,
                   ajustar_brillo_canal(np_array(a1.img_array), Arg(a1.img_array), "R", c.var_brillo_r))
        a3 == Paso(a2, c.var_brillo_g,
                   ajustar_brillo_canal(np_array(a2.img_array), Arg(a2.img_array), "G", c.var_brillo_g))
    IN  Paso(a3, c.var_brillo_b,
             ajustar_brillo_canal(np_array(a3.img_array), Arg(a3.img_array), "B", c.var_brillo_b))

(* the deltas applied to the image on display *)
App_aplicar_transformacion_acumulada ==
    /\ Manejador("aplicar_transformacion")
    /\ \E var \in DOMAIN PosicionesBrillo :
        /\ controles' = [controles EXCEPT ![var] = PosicionesBrillo[var]]
        /\ IF imagen_original = None
           THEN /\ mensaje' = ""
                /\ fallo' = ""
                /\ UNCHANGED imagenes
           ELSE \E a \in {aplicar_transformacion(imagen_procesada, controles')} :
                    IF a.error # "" THEN Excepcion("motor") ELSE Mostrar(a.img_array)

(* a brightness slider is moved: Scale sets its variable and calls
   aplicar_transformacion *)
App_aplicar_transformacion ==
    /\ Manejador("aplicar_transformacion")
    /\ \E var \in DOMAIN PosicionesBrillo :
        /\ controles' = [controles EXCEPT ![var] = PosicionesBrillo[var]]
        /\ IF imagen_original = None
           THEN /\ mensaje' = ""
                /\ fallo' = ""
                /\ UNCHANGED imagenes
           ELSE \E a \in {aplicar_transformacion(imagen_original, controles')} :
                    IF a.error # "" THEN Excepcion("motor") ELSE Mostrar(a.img_array)

(* one of the other sliders is moved: only its variable changes *)
App_mover_escala ==
    /\ Manejador("escala")
    /\ \E var \in DOMAIN OtrasPosiciones :
        controles' = [controles EXCEPT ![var] = OtrasPosiciones[var]]
    /\ mensaje' = ""
    /\ fallo' = ""
    /\ UNCHANGED imagenes

App_aplicar_contraste_log ==
    \/ /\ imagen_original = None
       /\ Advertencia("aplicar_contraste_log")
    \/ /\ imagen_original # None
       /\ pasos < MaxPasos
       /\ \E indef \in (IF ~Vacio(imagen_procesada)
                           /\ LogIndefinido(imagen_procesada, controles.var_c_log)
                        THEN ConversionIndefinida ELSE {0}) :
            Transformacion("aplicar_contraste_log",
                           contraste_logaritmico(np_array(imagen_procesada), Arg(imagen_procesada),
                                                 controles.var_c_log, indef), 1)

(* np.power is modelled at the exponent 1.0 only: the handler is followed
   with the gamma slider there *)
App_aplicar_contraste_exp ==
    \/ /\ imagen_original = None
       /\ Advertencia("aplicar_contraste_exp")
    \/ /\ imagen_original # None
       /\ controles.var_gamma \in Gammas
       /\ Transformacion("aplicar_contraste_exp",
                         contraste_exponencial(np_array(imagen_procesada), Arg(imagen_procesada),
                                               controles.var_gamma, 0), 1)

(* recortar_imagen_dialogo and the button of its dialog, ejecutar_recorte;
   a text that is no integer makes int() raise *)
App_ejecutar_recorte ==
    \/ /\ imagen_original = None
       /\ Advertencia("recortar_imagen_dialogo")
    \/ /\ imagen_original # None
       /\ \/ \E rect \in RectangulosUI :
               Transformacion("ejecutar_recorte",
                              recortar_imagen(np_array(imagen_procesada), Arg(imagen_procesada),
                                              rect[1], rect[2], rect[3], rect[4]), 1)
          \/ /\ Manejador("ejecutar_recorte")
             /\ Excepcion("interfaz")
             /\ UNCHANGED controles

App_aplicar_zoom ==
    \/ /\ imagen_original = None
       /\ Advertencia("aplicar_zoom")
    \/ /\ imagen_original # None
       /\ Transformacion("aplicar_zoom",
                         aplicar_zoom(np_array(imagen_procesada), Arg(imagen_procesada), 20), 1)

App_rotar_imagen ==
    \/ /\ imagen_original = None
       /\ Advertencia("rotar_imagen")
    \/ /\ imagen_original # None
       /\ Transformacion("rotar_imagen",
                         rotar_imagen(np_array(imagen_procesada), Arg(imagen_procesada),
                                      controles.var_angulo_rotacion), 1)

(* visualizar_histograma raises nothing, and its figure goes to a window of
   its own *)
App_mostrar_histograma ==
    \/ /\ imagen_procesada = None
       /\ Advertencia("mostrar_histograma")
    \/ /\ imagen_procesada # None
       /\ Manejador("mostrar_histograma")
       /\ mensaje' = ""
       /\ fallo' = ""
       /\ UNCHANGED <<imagenes, controles>>

(* np.array of both images, the second in img2 *)
DosArreglos == [np_array(imagen_procesada) EXCEPT !["img2"] = imagen_segunda]

App_fusionar_normal ==
    \/ /\ imagen_original = None \/ imagen_segunda = None
       /\ Advertencia("fusionar_normal")
    \/ /\ imagen_original # None
       /\ imagen_segunda # None
       /\ Transformacion("fusionar_normal",
                         fusionar_imagenes(DosArreglos, Arg(imagen_procesada),
                                           VistaCompleta(DosArreglos, "img2"),
                                           controles.var_alpha_fusion), 1)

App_fusionar_ecualizadas ==
    \/ /\ imagen_original = None \/ imagen_segunda = None
       /\ Advertencia("fusionar_ecualizadas")
    \/ /\ imagen_original # None
       /\ imagen_segunda # None
       /\ Transformacion("fusionar_ecualizadas",
                         fusionar_ecualizadas(DosArreglos, Arg(imagen_procesada),
                                              VistaCompleta(DosArreglos, "img2"),
                                              controles.var_alpha_fusion), 1)

App_extraer_canal_rgb ==
    \/ /\ imagen_original = None
       /\ Advertencia("extraer_canal_rgb")
    \/ /\ imagen_original # None
       /\ \E canal \in 1..3 :
            Transformacion("extraer_canal_rgb",
                           extraer_rgb(np_array(imagen_procesada), Arg(imagen_procesada)), canal)

(* the channel is made displayable by cv2.cvtColor(canal, COLOR_GRAY2RGB) in
   the handler *)
App_extraer_canal_cmyk ==
    \/ /\ imagen_original = None
       /\ Advertencia("extraer_canal_cmyk")
    \/ /\ imagen_original # None
          /\ Manejador("extraer_canal_cmyk")
       /\ UNCHANGED controles
       /\ \E r \in {extraer_cmyk(np_array(imagen_procesada), Arg(imagen_procesada))} :
            \E canal \in 1..4 :
                IF r.error # "" THEN Excepcion("motor")
                ELSE IF Vacio(Leer(r.mem, r.ret[canal])) THEN Excepcion("interfaz")
                ELSE Mostrar(cvtColor_GRAY2RGB(Leer(r.mem, r.ret[canal])))

App_aplicar_negativo ==
    \/ /\ imagen_original = None
       /\ Advertencia("aplicar_negativo")
    \/ /\ imagen_original # None
       /\ Transformacion("aplicar_negativo",
                         foto_negativa(np_array(imagen_procesada), Arg(imagen_procesada)), 1)

App_convertir_grises ==
    \/ /\ imagen_original = None
       /\ Advertencia("convertir_grises")
    \/ /\ imagen_original # None
       /\ Transformacion("convertir_grises",
                         convertir_grises(np_array(imagen_procesada), Arg(imagen_procesada)), 1)

App_binarizar_imagen ==
    \/ /\ imagen_original = None
       /\ Advertencia("binarizar_imagen")
    \/ /\ imagen_original # None
       /\ Transformacion("binarizar_imagen",
                         binarizar(np_array(imagen_procesada), Arg(imagen_procesada),
                                   controles.var_umbral), 1)

(* the copy taken from imagen_procesada instead of imagen_original *)
App_restaurar_original_sin_copia ==
    \/ /\ imagen_original = None
       /\ Advertencia("restaurar_original")
    \/ /\ imagen_original # None
       /\ Manejador("restaurar_original")
       /\ imagen_procesada' = imagen_procesada
       /\ controles' = ControlesPorDefecto
       /\ mensaje' = ""
       /\ fallo' = ""
       /\ UNCHANGED <<imagen_original, imagen_segunda>>

App_restaurar_original ==
    \/ /\ imagen_original = None
       /\ Advertencia("restaurar_original")
    \/ /\ imagen_original # None
       /\ Manejador("restaurar_original")
       /\ imagen_procesada' = imagen_original
       /\ controles' = ControlesPorDefecto
       /\ mensaje' = ""
       /\ fallo' = ""
       /\ UNCHANGED <<imagen_original, imagen_segunda>>

App_resetear_controles ==
    /\ Manejador("resetear_controles")
    /\ controles' = ControlesPorDefecto
    /\ mensaje' = ""
    /\ fallo' = ""
    /\ UNCHANGED imagenes

InitUI ==
    /\ mem = [b \in Bufs |-> SinBuffer]
    /\ fase = "listo"
    /\ llamada = SinLlamada
    /\ ret = <<>>
    /\ hist = <<>>
    /\ ent0 = <<>>
    /\ ret0 = <<>>
    /\ escrito = ""
    /\ InterfazInicial

NextUI ==
    \/ App_abrir_imagen
    \/ App_abrir_segunda_imagen
    \/ App_guardar_imagen
    \/ App_aplicar_transformacion
    \/ App_mover_escala
    \/ App_aplicar_contraste_log
    \/ App_aplicar_contraste_exp
    \/ App_ejecutar_recorte
    \/ App_aplicar_zoom
    \/ App_rotar_imagen
    \/ App_mostrar_histograma
    \/ App_fusionar_normal
    \/ App_fusionar_ecualizadas
    \/ App_extraer_canal_rgb
    \/ App_extraer_canal_cmyk
    \/ App_aplicar_negativo
    \/ App_convertir_grises
    \/ App_binarizar_imagen
    \/ App_restaurar_original
    \/ App_resetear_controles

SpecUI == InitUI /\ [][NextUI]_vars

----------------------------------------------------------------------------
(* Properties *)

Acotar(v) == IF v < 0 THEN 0 ELSE IF v > 255 THEN 255 ELSE v

Retornado(op) == fase = "retornado" /\ llamada.op = op

Posiciones(a) == (1..a.h) \X (1..a.w) \X (1..3)

En(a, p) == a.px[p[1]][p[2]][p[3]]

(* C1: ajustar_brillo_global returns a raster of the input's dimensions whose
   every element is clamp(input + delta, 0, 255); with delta = 0 the result
   equals the input. *)
C1_BrilloGlobal ==
    Retornado("ajustar_brillo_global") =>
        /\ Len(ret0) = 1
        /\ MismaForma(ret0[1], ent0[1])
        /\ \A p \in Posiciones(ent0[1]) :
             En(ret0[1], p) = Acotar(En(ent0[1], p) + llamada.n)
        /\ llamada.n = 0 => ret0[1] = ent0[1]

C1_Witness ==
    /\ Retornado("ajustar_brillo_global")
    /\ llamada.n = 100
    /\ \E p \in Posiciones(ent0[1]) : En(ent0[1], p) + 100 > 255 /\ En(ret0[1], p) = 255
    /\ \E p \in Posiciones(ent0[1]) : En(ent0[1], p) + 100 < 255

(* C2: foto_negativa maps every element r to 255 - r, and applying it to its
   own result gives back the input raster. *)
C2_NegativoInvolucion ==
    Retornado("foto_negativa") =>
        /\ Len(ret0) = 1
        /\ MismaForma(ret0[1], ent0[1])
        /\ \A p \in Posiciones(ent0[1]) : En(ret0[1], p) = 255 - En(ent0[1], p)
        /\ LET m2 == MemoriaCon(ret0[1])
               r2 == foto_negativa(m2, VistaCompleta(m2, "img1"))
           IN  Leer(r2.mem, r2.ret[1]) = ent0[1]

C2_Witness == Retornado("foto_negativa") /\ ent0[1] = Rampa

RECURSIVE SumaBins(_, _, _)
SumaBins(f, lo, hi) ==
    IF lo > hi THEN 0
    ELSE IF lo = hi THEN f[lo]
    ELSE SumaBins(f, lo, (lo + hi) \div 2) + SumaBins(f, (lo + hi) \div 2 + 1, hi)

(* C3: calcular_histograma returns three 256-bin arrays; bin v of channel c
   counts the pixels whose channel c equals v, so each channel's bins sum to
   width * height and a channel filled with v has width * height at bin v and
   0 elsewhere. *)
C3_Histograma ==
    Retornado("calcular_histograma") =>
        /\ Len(hist) = 3
        /\ \A c \in 1..3 :
             /\ DOMAIN hist[c] = 0..255
             /\ \A v \in 0..255 :
                  hist[c][v] = Cardinality({p \in Posiciones(ent0[1]) :
                                               p[3] = c /\ En(ent0[1], p) = v})
             /\ SumaBins(hist[c], 0, 255) = ent0[1].w * ent0[1].h
             /\ \A v \in 0..255 :
                  (\A p \in Posiciones(ent0[1]) : p[3] = c => En(ent0[1], p) = v) =>
                      \A u \in 0..255 :
                          hist[c][u] = IF u = v THEN ent0[1].w * ent0[1].h ELSE 0

C3_Witness ==
    /\ Retornado("calcular_histograma")
    /\ ent0[1] = Uniforme(MaxAlto, MaxAncho, <<255, 255, 255>>)
    /\ hist[1][255] = MaxAlto * MaxAncho

(* C4: extraer_rgb returns three rasters of the input's dimensions; output i
   keeps channel i and has the other channels 0, and the element-wise sum of
   the three equals the input. *)
C4_ExtraerRGB ==
    Retornado("extraer_rgb") =>
        /\ Len(ret0) = 3
        /\ \A i \in 1..3 :
             /\ MismaForma(ret0[i], ent0[1])
             /\ \A p \in Posiciones(ent0[1]) :
                  En(ret0[i], p) = IF p[3] = i THEN En(ent0[1], p) ELSE 0
        /\ \A p \in Posiciones(ent0[1]) :
             En(ret0[1], p) + En(ret0[2], p) + En(ret0[3], p) = En(ent0[1], p)

C4_Witness == Retornado("extraer_rgb") /\ ent0[1] = Codificado(MaxAlto, MaxAncho)

(* C5: every returned raster is a fresh allocation sharing no storage with
   the input: a later write to the result never changes the input, and a
   later write to the input never changes the result. *)
C5_SalidaFresca ==
    /\ escrito = "salida" => Leer(mem, Imagen1) = ent0[1]
    /\ escrito = "entrada" => \A i \in 1..Len(ret) : Leer(mem, ret[i]) = ret0[i]

(* C6: no engine operation changes a raster passed to it.  Once a call has
   returned or raised, and before the caller writes anything, each raster
   passed to it holds what it held when the call was made; this covers every
   operation and both rasters of fusionar_imagenes and fusionar_ecualizadas *)
C6_EntradaIntacta ==
    (fase \in {"retornado", "error"} /\ escrito = "") =>
        /\ mem["img1"] = ent0[1]
        /\ Len(ent0) = 2 => mem["img2"] = ent0[2]

C6_Witness ==
    /\ Retornado("fusionar_ecualizadas")
    /\ escrito = ""
    /\ Len(ent0) = 2
    /\ ent0[1] # ent0[2]
    /\ ret0[1] # ent0[1]
    /\ mem["img1"] = ent0[1]
    /\ mem["img2"] = ent0[2]

(* C7: contraste_logaritmico with c = 1.0 on a fully black raster returns a
   raster of the same dimensions with every element 0. *)
C7_LogNegro ==
    (llamada.op = "contraste_logaritmico" /\ llamada.q = 10 /\ Elementos(ent0[1]) = {0}) =>
        /\ fase = "retornado"
        /\ MismaForma(ret0[1], ent0[1])
        /\ Elementos(ret0[1]) = {0}

(* C8: contraste_exponencial with gamma = 1.0 returns a raster equal to the
   input: every element r in 0..255 comes back as r. *)
C8_GammaIdentidad ==
    (Retornado("contraste_exponencial") /\ llamada.q = 10) =>
        /\ Len(ret0) = 1
        /\ ret0[1] = ent0[1]

C8_Witness ==
    Retornado("contraste_exponencial") /\ llamada.q = 10 /\ ent0[1] = Rampa /\ ret0[1] = Rampa

(* C9: contraste_exponencial with gamma <= 0 fails with an error and returns
   no raster. *)
C9_GammaNoPositivo ==
    (llamada.op = "contraste_exponencial" /\ llamada.q <= 0) =>
        fase = "error" /\ ret = <<>>

(* C10: ajustar_brillo_canal with channel R, G or B returns a raster whose
   selected channel is clamp(input + delta, 0, 255) and whose two other
   channels equal the input. *)
C10_BrilloCanal ==
    (Retornado("ajustar_brillo_canal") /\ llamada.canal \in {"R", "G", "B"}) =>
        /\ Len(ret0) = 1
        /\ MismaForma(ret0[1], ent0[1])
        /\ \A p \in Posiciones(ent0[1]) :
             En(ret0[1], p) =
                IF <<"R", "G", "B">>[p[3]] = llamada.canal
                THEN Acotar(En(ent0[1], p) + llamada.n)
                ELSE En(ent0[1], p)

C10_Witness ==
    /\ Retornado("ajustar_brillo_canal")
    /\ llamada.canal = "G"
    /\ llamada.n = 50
    /\ ent0[1] = Codificado(MaxAlto, MaxAncho)
    /\ \E p \in Posiciones(ent0[1]) : p[3] = 2 /\ En(ent0[1], p) + 50 > 255 /\ En(ret0[1], p) = 255
    /\ \E p \in Posiciones(ent0[1]) : p[3] = 2 /\ En(ent0[1], p) + 50 < 255
    /\ \E p \in Posiciones(ent0[1]) : p[3] # 2 /\ En(ent0[1], p) + 50 # En(ent0[1], p)

(* C11: ajustar_brillo_canal called with a channel tag other than 'R', 'G',
   'B' raises ValueError whatever the raster and the delta, returns no
   raster, and leaves the raster passed to it as it was *)
C11_CanalInvalido ==
    (/\ fase # "listo"
     /\ llamada.op = "ajustar_brillo_canal"
     /\ llamada.canal \notin {"R", "G", "B"}) =>
        /\ fase = "error"
        /\ ret = <<>>
        /\ ret0 = <<>>
        /\ mem = MemoriaCon(ent0[1])

C11_Witness ==
    /\ fase = "error"
    /\ llamada.op = "ajustar_brillo_canal"
    /\ llamada.canal = "r"
    /\ llamada.n = 100
    /\ ent0[1] = Rampa
    /\ ret = <<>>

(* 1000 times the luma 0.299 R + 0.587 G + 0.114 B of pixel p *)
LumaMil(p) == 299 * p[1] + 587 * p[2] + 114 * p[3]

Abs(v) == IF v < 0 THEN -v ELSE v

Pixeles(a) == (1..a.h) \X (1..a.w)

Pixel(a, p) == a.px[p[1]][p[2]]

(* C12 as claimed: binarizar gives a pixel 255 in its three channels when its
   luma, rounded to the nearest integer, is strictly greater than the
   threshold t, and 0 in its three channels otherwise *)
C12_BinarizarLuma ==
    Retornado("binarizar") =>
        /\ MismaForma(ret0[1], ent0[1])
        /\ \A p \in Pixeles(ent0[1]) :
             /\ LumaMil(Pixel(ent0[1], p)) > 1000 * llamada.n + 500
                  => Pixel(ret0[1], p) = <<MaxU8, MaxU8, MaxU8>>
             /\ LumaMil(Pixel(ent0[1], p)) < 1000 * llamada.n + 500
                  => Pixel(ret0[1], p) = <<0, 0, 0>>

(* C12, amended: binarizar gives a pixel 255 in its three channels when the
   gray level of the pixel, OpenCV's fixed-point luma as convertir_grises
   gives it, is strictly greater than the threshold t, and 0 in its three
   channels otherwise; hence 255 for a luma of t + 0.51 or more, 0 for a luma
   of t + 0.49 or less, and 0 for a luma of exactly 127 with t = 127 *)
C12_BinarizarGris ==
    Retornado("binarizar") =>
        /\ MismaForma(ret0[1], ent0[1])
        /\ \A p \in Pixeles(ent0[1]) :
             /\ Pixel(ret0[1], p) =
                    IF RGB2GRAY_pixel(Pixel(ent0[1], p)) > llamada.n
                    THEN <<MaxU8, MaxU8, MaxU8>> ELSE <<0, 0, 0>>
             /\ LumaMil(Pixel(ent0[1], p)) >= 1000 * llamada.n + 510
                  => Pixel(ret0[1], p) = <<MaxU8, MaxU8, MaxU8>>
             /\ LumaMil(Pixel(ent0[1], p)) <= 1000 * llamada.n + 490
                  => Pixel(ret0[1], p) = <<0, 0, 0>>
             /\ (LumaMil(Pixel(ent0[1], p)) = 127000 /\ llamada.n = 127)
                  => Pixel(ret0[1], p) = <<0, 0, 0>>

C12_Witness ==
    /\ Retornado("binarizar")
    /\ llamada.n = 127
    /\ ent0[1] = Rampa
    /\ \E p \in Pixeles(ent0[1]) :
         RGB2GRAY_pixel(Pixel(ent0[1], p)) = 127 /\ Pixel(ret0[1], p) = <<0, 0, 0>>
    /\ \E p \in Pixeles(ent0[1]) : Pixel(ret0[1], p) = <<MaxU8, MaxU8, MaxU8>>

(* C13 as claimed: convertir_grises returns a raster of the input's
   dimensions whose three channels are, at every pixel, the luma of the input
   pixel rounded to the nearest integer *)
C13_GrisRedondeado ==
    Retornado("convertir_grises") =>
        /\ MismaForma(ret0[1], ent0[1])
        /\ \A p \in Pixeles(ent0[1]) :
             /\ Pixel(ret0[1], p) = <<Pixel(ret0[1], p)[1], Pixel(ret0[1], p)[1],
                                      Pixel(ret0[1], p)[1]>>
             /\ Abs(1000 * Pixel(ret0[1], p)[1] - LumaMil(Pixel(ent0[1], p))) <= 500

(* C13, amended: convertir_grises returns a raster of the input's dimensions
   whose three channels are, at every pixel, one integer in 0..255 within
   0.51 of the luma of the input pixel: the nearest integer, except that a
   luma within 0.01 of a half may go either way *)
C13_GrisPuntoFijo ==
    Retornado("convertir_grises") =>
        /\ MismaForma(ret0[1], ent0[1])
        /\ \A p \in Pixeles(ent0[1]) :
             /\ Pixel(ret0[1], p)[1] \in Niveles
             /\ Pixel(ret0[1], p) = <<Pixel(ret0[1], p)[1], Pixel(ret0[1], p)[1],
                                      Pixel(ret0[1], p)[1]>>
             /\ Abs(1000 * Pixel(ret0[1], p)[1] - LumaMil(Pixel(ent0[1], p))) <= 510

C13_Witness ==
    /\ Retornado("convertir_grises")
    /\ ent0[1] = CasiMedios
    /\ ret0[1].px = <<<<<<127, 127, 127>>, <<35, 35, 35>>>>>>

(* the array holding rows [f0, f1) and columns [c0, c1) of a; empty along an
   axis whose range is empty *)
Subrectangulo(a, f0, f1, c0, c1) ==
    Arreglo(Max(f1 - f0, 0), Max(c1 - c0, 0), LAMBDA y, x : a.px[f0 + y][c0 + x])

(* C14: for 0 <= x1 < x2 <= width and 0 <= y1 < y2 <= height, recortar_imagen
   returns a raster of size (x2 - x1) x (y2 - y1) whose pixel at row r, column
   c is the input's pixel at row y1 + r, column x1 + c; the crop by
   (0, 0, width, height) equals the input *)
C14_Recorte ==
    LET x1 == llamada.rect[1]
        y1 == llamada.rect[2]
        x2 == llamada.rect[3]
        y2 == llamada.rect[4]
    IN  (/\ Retornado("recortar_imagen")
         /\ 0 <= x1 /\ x1 < x2 /\ x2 <= ent0[1].w
         /\ 0 <= y1 /\ y1 < y2 /\ y2 <= ent0[1].h) =>
            /\ Len(ret0) = 1
            /\ ret0[1].w = x2 - x1
            /\ ret0[1].h = y2 - y1
            /\ \A r \in 0..(y2 - y1 - 1), c \in 0..(x2 - x1 - 1) :
                 ret0[1].px[r + 1][c + 1] = ent0[1].px[y1 + r + 1][x1 + c + 1]
            /\ (x1 = 0 /\ y1 = 0 /\ x2 = ent0[1].w /\ y2 = ent0[1].h) => ret0[1] = ent0[1]

C14_Witness ==
    /\ Retornado("recortar_imagen")
    /\ ent0[1] = Codificado(MaxAlto, MaxAncho)
    /\ llamada.rect = <<1, 0, MaxAncho, MaxAlto>>
    /\ ret0[1].w = MaxAncho - 1
    /\ ret0[1].h = MaxAlto
    /\ ret0[1].px[1][1] = ent0[1].px[1][2]

(* C15: recortar_imagen raises, and returns no raster, when the rectangle is
   empty (x1 >= x2 or y1 >= y2) or lies outside the image *)
C15_RecorteInvalido ==
    LET x1 == llamada.rect[1]
        y1 == llamada.rect[2]
        x2 == llamada.rect[3]
        y2 == llamada.rect[4]
    IN  (/\ fase # "listo"
         /\ llamada.op = "recortar_imagen"
         /\ \/ x1 >= x2 \/ y1 >= y2
            \/ x1 >= ent0[1].w \/ y1 >= ent0[1].h \/ x2 <= 0 \/ y2 <= 0) =>
            fase = "error" /\ ret = <<>>

(* C16 as claimed: for all integers x1, y1, x2, y2, recortar_imagen returns
   the crop with each x clamped to [0, width] and each y to [0, height] *)
C16_RecorteAcotado ==
    LET w == ent0[1].w
        h == ent0[1].h
    IN  Retornado("recortar_imagen") =>
            ret0[1] = Subrectangulo(ent0[1], clip(llamada.rect[2], 0, h),
                                    clip(llamada.rect[4], 0, h),
                                    clip(llamada.rect[1], 0, w),
                                    clip(llamada.rect[3], 0, w))

(* a coordinate as Python slicing reads it: a negative one counts from the
   far edge, and the outcome is clamped to [0, n] *)
DesdeElFinal(v, n) == clip(IF v < 0 THEN v + n ELSE v, 0, n)

(* C16, amended: for all integers x1, y1, x2, y2, recortar_imagen returns the
   crop with each overshooting coordinate clamped to width / height, and each
   negative coordinate v read as v + width / v + height (counted from the far
   edge) and then clamped at 0; the result may be smaller or empty *)
C16_RecorteSlicing ==
    LET w == ent0[1].w
        h == ent0[1].h
    IN  Retornado("recortar_imagen") =>
            ret0[1] = Subrectangulo(ent0[1], DesdeElFinal(llamada.rect[2], h),
                                    DesdeElFinal(llamada.rect[4], h),
                                    DesdeElFinal(llamada.rect[1], w),
                                    DesdeElFinal(llamada.rect[3], w))

C16_Witness ==
    /\ Retornado("recortar_imagen")
    /\ ent0[1] = Codificado(MaxAlto, MaxAncho)
    /\ llamada.rect = <<-1, 0, MaxAncho + 1, MaxAlto + 1>>
    /\ ret0[1].w = 1
    /\ ret0[1].h = MaxAlto
    /\ ret0[1].px[1][1] = ent0[1].px[1][MaxAncho]

(* the size int(dimension * factor) of the resized array, factor in tenths *)
Escalado(n, q) == (n * q) \div 10

(* what C17 says of a zoom that returned: for factor > 1 the raster has the
   input's size and is the window of the resized array at offset
   floor((new - original) / 2) on each axis; for factor <= 1 it is the whole
   resized array *)
ZoomRetornado ==
    LET w == ent0[1].w
        h == ent0[1].h
        nw == Escalado(w, llamada.q)
        nh == Escalado(h, llamada.q)
        buf == mem[ret[1].buf]
    IN  /\ fase = "retornado"
        /\ Len(ret) = 1
        /\ buf.w = nw /\ buf.h = nh
        /\ llamada.q > 10 =>
             /\ ret0[1].w = w /\ ret0[1].h = h
             /\ ret[1].x0 = (nw - w) \div 2 /\ ret[1].y0 = (nh - h) \div 2
             /\ escrito = "" =>
                  ret0[1] = Subrectangulo(buf, ret[1].y0, ret[1].y0 + h,
                                          ret[1].x0, ret[1].x0 + w)
        /\ llamada.q <= 10 =>
             /\ ret0[1].w = nw /\ ret0[1].h = nh
             /\ ret[1].x0 = 0 /\ ret[1].y0 = 0
             /\ escrito = "" => ret0[1] = buf

(* C17 as claimed: aplicar_zoom returns, for every raster: with factor > 1 a
   raster of the input's size cut from the resized array at offset
   floor((new_dim - original_dim) / 2), with 0 < factor <= 1 the resized array
   as it is, of size floor(width * factor) x floor(height * factor) *)
C17_ZoomSiempre ==
    (fase # "listo" /\ llamada.op = "aplicar_zoom") => ZoomRetornado

(* C17, amended: the same, for every raster and factor with
   floor(width * factor) >= 1 and floor(height * factor) >= 1; when one of
   them is 0 (a factor below 1 on a raster one pixel wide or high) the call
   raises and returns no raster *)
C17_Zoom ==
    (fase # "listo" /\ llamada.op = "aplicar_zoom") =>
        IF Escalado(ent0[1].w, llamada.q) >= 1 /\ Escalado(ent0[1].h, llamada.q) >= 1
        THEN ZoomRetornado
        ELSE fase = "error" /\ ret = <<>>

C17_Witness ==
    /\ Retornado("aplicar_zoom")
    /\ llamada.q = 20
    /\ ent0[1] = Codificado(MaxAlto, MaxAncho)
    /\ mem[ret[1].buf].w = 2 * MaxAncho
    /\ ret[1].x0 = MaxAncho \div 2
    /\ ret0[1].w = MaxAncho
    /\ ret0[1].h = MaxAlto

(* C18: fusionar_imagenes(a, a, alpha) equals a element for element, for
   every raster a and every weight alpha in [0, 1] *)
C18_FusionConsigoMisma ==
    (Retornado("fusionar_imagenes") /\ ent0[2] = ent0[1]) => ret0[1] = ent0[1]

C18_Witness ==
    /\ Retornado("fusionar_imagenes")
    /\ llamada.q = 3
    /\ ent0[1] = Rampa
    /\ ent0[2] = Rampa
    /\ ret0[1] = Rampa

(* C19: fusionar_imagenes(a, b, alpha) returns, for rasters a and b of any
   non-zero sizes and every alpha, a raster of a's size: b is resized to a's
   size when the sizes differ, so with alpha = 0 the result is b resized and
   with alpha = 1 it is a *)
C19_FusionForma ==
    (fase # "listo" /\ llamada.op = "fusionar_imagenes") =>
        /\ fase = "retornado"
        /\ Len(ret0) = 1
        /\ MismaForma(ret0[1], ent0[1])
        /\ llamada.q = 0 => ret0[1] = resize(ent0[2], ent0[1].w, ent0[1].h)
        /\ llamada.q = 10 => ret0[1] = ent0[1]

C19_Witness ==
    /\ Retornado("fusionar_imagenes")
    /\ ent0[1] = Codificado(MaxAlto, MaxAncho)
    /\ ent0[2] = Uniforme(1, 1, <<200, 0, 0>>)
    /\ llamada.q = 5
    /\ MismaForma(ret0[1], ent0[1])
    /\ ~MismaForma(ret0[1], ent0[2])

(* what a method returns for raster a alone in memory, and for a and b *)
Ecualizada(a) ==
    LET r == ecualizar_histograma(MemoriaCon(a), Vista("img1", 0, 0, a.h, a.w))
    IN  Leer(r.mem, r.ret[1])

Fusionada(a, b, alpha) ==
    LET m == [MemoriaCon(a) EXCEPT !["img2"] = b]
        r == fusionar_imagenes(m, VistaCompleta(m, "img1"), VistaCompleta(m, "img2"), alpha)
    IN  Leer(r.mem, r.ret[1])

(* C20: fusionar_ecualizadas(a, b, alpha) returns what
   fusionar_imagenes(ecualizar_histograma(a), ecualizar_histograma(b), alpha)
   returns: each raster equalised on its own, before the blend and before b
   is resized, a weighted by alpha and b by 1 - alpha *)
C20_FusionEcualizadas ==
    (Retornado("fusionar_ecualizadas") /\ escrito = "") =>
        ret0[1] = Fusionada(Ecualizada(ent0[1]), Ecualizada(ent0[2]), llamada.q)

C20_Witness ==
    /\ Retornado("fusionar_ecualizadas")
    /\ escrito = ""
    /\ llamada.q = 3
    /\ ent0[1] = Codificado(MaxAlto, MaxAncho)
    /\ ent0[2] = Codificado(1, MaxAncho)
    /\ Ecualizada(ent0[1]) # ent0[1]
    /\ ret0[1] # Fusionada(ent0[1], ent0[2], llamada.q)

Maximo(S) == CHOOSE v \in S : \A u \in S : u <= v

(* C21: extraer_cmyk gives every fully black pixel C = M = Y = 0 and K = 255;
   a pixel that is not fully black keeps the denominator 1 - K = max/255: a
   channel v of it gives the integer part of 255 (max - v) / max, or one less,
   and K is 255 - max or one less, max being its largest channel *)
C21_CMYKNegro ==
    (Retornado("extraer_cmyk") /\ escrito = "") =>
        /\ Len(ret0) = 4
        /\ \A i \in 1..4 : MismaForma(ret0[i], ent0[1])
        /\ \A p \in Pixeles(ent0[1]) :
             LET rgb == Pixel(ent0[1], p)
                 max == Maximo({rgb[c] : c \in 1..3})
                 K == Pixel(ret0[4], p)[1]
             IN  IF max = 0
                 THEN /\ \A c \in 1..3 : Pixel(ret0[c], p) = <<0>>
                      /\ K = 255
                 ELSE /\ \A c \in 1..3 :
                           LET v == Pixel(ret0[c], p)[1]
                           IN  /\ v * max <= 255 * (max - rgb[c])
                               /\ 255 * (max - rgb[c]) < (v + 2) * max
                      /\ K \in {254 - max, 255 - max}

C21_Witness ==
    /\ Retornado("extraer_cmyk")
    /\ escrito = ""
    /\ ent0[1] = ConNegro
    /\ ret0[1].px = <<<< <<0>>, <<0>> >>>>
    /\ ret0[2].px = <<<< <<0>>, <<255>> >>>>
    /\ ret0[3].px = <<<< <<0>>, <<127>> >>>>
    /\ ret0[4].px[1][1] = <<255>>
    /\ ret0[4].px[1][2][1] \in {154, 155}

(* what contraste_logaritmico returns for raster a, not black, and constant c *)
ConLogaritmo(a, c) ==
    LET r == contraste_logaritmico(MemoriaCon(a), Vista("img1", 0, 0, a.h, a.w), c, 0)
    IN  Leer(r.mem, r.ret[1])

LogRetornado ==
    /\ Retornado("contraste_logaritmico")
    /\ escrito = ""
    /\ Elementos(ent0[1]) # {0}

(* C25 as claimed: for a raster that is not black the result of
   contraste_logaritmico is the same for every c > 0 (the result for c is
   that for every larger c), and every element equal to the raster's maximum
   maps to 255 *)
C25_LogSinC ==
    LogRetornado =>
        /\ \A c2 \in Cs : c2 > llamada.q => ret0[1] = ConLogaritmo(ent0[1], c2)
        /\ \A max \in {Maximo(Elementos(ent0[1]))}, p \in Posiciones(ent0[1]) :
             En(ent0[1], p) = max => En(ret0[1], p) = 255

(* C25, amended: for a raster that is not black the results of
   contraste_logaritmico for two constants c > 0 of the slider have the same
   size and differ by at most 1 at each element (the result for c is
   compared with that for every larger c), and every element equal to the
   raster's maximum maps to 255 *)
C25_LogCasiSinC ==
    LogRetornado =>
        /\ \A c2 \in {c \in Cs : c > llamada.q} :
             \A otro \in {ConLogaritmo(ent0[1], c2)} :
                 /\ MismaForma(ret0[1], otro)
                 /\ \A p \in Posiciones(ent0[1]) : Abs(En(ret0[1], p) - En(otro, p)) <= 1
        /\ \A max \in {Maximo(Elementos(ent0[1]))}, p \in Posiciones(ent0[1]) :
             En(ent0[1], p) = max => En(ret0[1], p) = 255

C25_Witness ==
    /\ LogRetornado
    /\ llamada.q = 1
    /\ ent0[1] = Tercios
    /\ ret0[1].px = <<<< <<84, 169, 255>> >>>>
    /\ ConLogaritmo(ent0[1], 10).px = <<<< <<85, 170, 255>> >>>>

----------------------------------------------------------------------------
(* Properties of the application *)

SinCambio ==
    /\ imagen_original = anterior.original
    /\ imagen_procesada = anterior.procesada
    /\ imagen_segunda = anterior.segunda

Transformadores ==
    {"aplicar_transformacion", "aplicar_contraste_log", "aplicar_contraste_exp",
     "ejecutar_recorte", "aplicar_zoom", "rotar_imagen", "fusionar_normal",
     "fusionar_ecualizadas", "extraer_canal_rgb", "extraer_canal_cmyk",
     "aplicar_negativo", "convertir_grises", "binarizar_imagen"}

(* C22: when the engine call of a transformation handler raises, the handler
   shows the error in a message and imagen_procesada, imagen_original and
   imagen_segunda are what they were before the handler *)
C22_ErrorSinCambio ==
    fallo = "motor" =>
        /\ accion \in Transformadores
        /\ mensaje = "showerror"
        /\ SinCambio

C22_Witness ==
    /\ fallo = "motor"
    /\ accion = "aplicar_zoom"
    /\ mensaje = "showerror"
    /\ Vacio(imagen_procesada)
    /\ imagen_procesada # imagen_original
    /\ SinCambio

(* C23: after a move of a brightness slider with an image loaded,
   imagen_procesada is what the four deltas make of imagen_original, whatever
   was on display before *)
C23_BrilloDesdeOriginal ==
    (accion = "aplicar_transformacion" /\ imagen_original # None /\ fallo = "") =>
        imagen_procesada = aplicar_transformacion(imagen_original, controles).img_array

C23_Witness ==
    /\ accion = "aplicar_transformacion"
    /\ imagen_original = Codificado(1, MaxAncho)
    /\ anterior.procesada # imagen_original
    /\ anterior.controles = ControlesPorDefecto
    /\ controles.var_brillo_g = 100
    /\ imagen_procesada = aplicar_transformacion(imagen_original, controles).img_array
    /\ imagen_procesada # aplicar_transformacion(anterior.procesada, controles).img_array

DeltaDeCanal(c) ==
    <<controles.var_brillo_r, controles.var_brillo_g, controles.var_brillo_b>>[c]

(* C24: after a move of a brightness slider every element v of channel X of
   imagen_original ends as clamp(clamp(v + g, 0, 255) + d_X, 0, 255), g the
   global delta and d_X the delta of the channel: the global delta is applied
   and clamped first *)
C24_BrilloEnOrden ==
    (accion = "aplicar_transformacion" /\ imagen_original # None /\ fallo = "") =>
        /\ MismaForma(imagen_procesada, imagen_original)
        /\ \A p \in Posiciones(imagen_original) :
             En(imagen_procesada, p) =
                Acotar(Acotar(En(imagen_original, p) + controles.var_brillo_global)
                       + DeltaDeCanal(p[3]))

C24_Witness ==
    /\ accion = "aplicar_transformacion"
    /\ imagen_original = Uniforme(1, 1, <<200, 0, 0>>)
    /\ controles.var_brillo_global = 100
    /\ controles.var_brillo_r = -100
    /\ imagen_procesada.px[1][1][1] = 155
    /\ Acotar(200 + 100 - 100) = 200

(* C26: imagen_original changes only in abrir_imagen, when the file opens:
   no other handler, and no failed abrir_imagen, changes it *)
C26_OriginalSoloAlAbrir ==
    [][imagen_original' # imagen_original =>
          (accion' = "abrir_imagen" /\ mensaje' = "" /\ fallo' = "")]_vars

C26_Witness ==
    /\ accion = "aplicar_negativo"
    /\ fallo = ""
    /\ imagen_original # None
    /\ imagen_original = anterior.original
    /\ imagen_procesada # anterior.procesada
    /\ anterior.procesada # imagen_original

(* C27: imagen_procesada is None exactly when imagen_original is None, and
   imagen_segunda is not None only when imagen_original is not None *)
C27_ImagenesPresentes ==
    /\ imagen_procesada = None <=> imagen_original = None
    /\ imagen_segunda # None => imagen_original # None

C27_Witness ==
    /\ accion = "fusionar_normal"
    /\ fallo = ""
    /\ imagen_original # None
    /\ imagen_procesada # None
    /\ imagen_segunda # None

(* C28: restaurar_original with an image loaded leaves imagen_procesada equal
   to imagen_original and every control at its default; with no image loaded
   it changes none of the three images *)
C28_Restaurar ==
    accion = "restaurar_original" =>
        /\ imagen_original = anterior.original
        /\ imagen_segunda = anterior.segunda
        /\ IF imagen_original = None
           THEN imagen_procesada = anterior.procesada
           ELSE /\ imagen_procesada = imagen_original
                /\ controles = ControlesPorDefecto
                /\ controles.var_brillo_global = 0 /\ controles.var_brillo_r = 0
                /\ controles.var_brillo_g = 0 /\ controles.var_brillo_b = 0
                /\ controles.var_gamma = 10 /\ controles.var_c_log = 10
                /\ controles.var_umbral = 127 /\ controles.var_alpha_fusion = 5
                /\ controles.var_angulo_rotacion = 0

C28_Witness ==
    /\ accion = "restaurar_original"
    /\ imagen_original # None
    /\ anterior.procesada # anterior.original
    /\ anterior.controles # ControlesPorDefecto
    /\ imagen_procesada = imagen_original
    /\ controles = ControlesPorDefecto

====
